---- MODULE Spec2Model ----
(***************************************************************************)
(* Natural-language tool dispatch of the MCP snippet clients.              *)
(*                                                                         *)
(* A dispatch cycle asks a language model for a {name, arguments}          *)
(* selection, recovers it from the model output, and hands it to           *)
(* session.call_tool.  Four client scripts are modelled side by side:      *)
(*   "test3"   test3/mcp_ollama_client.py   invoke_tool_with_ollama        *)
(*   "test4"   test4/mcp_ollama_client.py   call_math_with_llm             *)
(*   "testmcp" test-mcp/mcp_ollama_client.py process_user_request          *)
(*   "test2"   test2/mcp_ollama_client.py   execute_tool_flow              *)
(* The remote side is server.py (handle_list_tools / handle_call_tool).    *)
(*                                                                         *)
(* Model output text is a sequence of JSON lexemes and prose words;        *)
(* whitespace is dropped.  No string lexeme contains a brace character.    *)
(***************************************************************************)
EXTENDS Integers, Sequences, FiniteSets, TLC

(***************************************************************************)
(* Bounds of the model.                                                    *)
(***************************************************************************)
\* longest model output enumerated lexeme by lexeme
MaxRaw == 3
\* longest prose prefix / suffix wrapped around a serialized object
MaxWrap == 1
\* user inputs processed in one session (main's user_inputs list)
MaxInputs == 2
\* longest content list of a result payload
MaxItems == 2
\* longest anyOf list of a parameter schema
MaxUnion == 2
\* longest run of AUTOINCREMENT ids a table hands out
MaxPosts == 2

(***************************************************************************)
(* Lexemes.  Every lexeme is a record of one shape.                        *)
(***************************************************************************)
Tok(k, s, n) == [k |-> k, s |-> s, n |-> n]
LBrace == Tok("lbrace", "", 0)
RBrace == Tok("rbrace", "", 0)
LBracket == Tok("lbracket", "", 0)
RBracket == Tok("rbracket", "", 0)
Colon == Tok("colon", "", 0)
Comma == Tok("comma", "", 0)
StrTok(s) == Tok("str", s, 0)
NumTok(n) == Tok("num", "", n)
LitTok(s) == Tok("lit", s, 0)
\* a run of prose characters that is no JSON lexeme ("Sure!")
Word == Tok("word", "Sure", 0)

(***************************************************************************)
(* JSON values as Python holds them after json.loads.  A dict is the       *)
(* sequence of its <<key, value>> items in insertion order; a list is the  *)
(* sequence of <<"", value>> items.                                        *)
(***************************************************************************)
JV(t, s, n, m) == [t |-> t, s |-> s, n |-> n, m |-> m]
None == JV("none", "", 0, <<>>)
JStr(s) == JV("str", s, 0, <<>>)
JNum(n) == JV("num", "", n, <<>>)
JBool(s) == JV("bool", s, 0, <<>>)
JDict(m) == JV("dict", "", 0, m)
JList(m) == JV("list", "", 0, m)

\* isinstance(v, dict)
IsDict(v) == v.t = "dict"

\* key in d
HasKey(d, key) == \E i \in 1..Len(d.m) : d.m[i][1] = key

\* d[key], for a key that is present
Get(d, key) == d.m[CHOOSE i \in 1..Len(d.m) : d.m[i][1] = key][2]

\* d[key] = v on the item sequence: a present key keeps its position
DictPut(m, key, v) ==
    IF \E i \in 1..Len(m) : m[i][1] = key
    THEN [i \in 1..Len(m) |-> IF m[i][1] = key THEN <<key, v>> ELSE m[i]]
    ELSE Append(m, <<key, v>>)

\* the keys of a dict, as a set
Keys(d) == {d.m[i][1] : i \in 1..Len(d.m)}

(***************************************************************************)
(* json.loads: one value, then the end of the text.                        *)
(***************************************************************************)
PFail == [ok |-> FALSE, val |-> None, nxt |-> 0]
POk(v, i) == [ok |-> TRUE, val |-> v, nxt |-> i]

LitValue(s) == IF s = "null" THEN None ELSE JBool(s)

RECURSIVE ParseValue(_, _)
RECURSIVE ParseMembers(_, _, _)
RECURSIVE ParseElements(_, _, _)

\* members of an object from position i (a key is expected there)
ParseMembers(toks, i, acc) ==
    IF i + 2 > Len(toks) \/ toks[i].k # "str" \/ toks[i + 1].k # "colon"
    THEN PFail
    ELSE LET r == ParseValue(toks, i + 2) IN
         IF ~r.ok \/ r.nxt > Len(toks) THEN PFail
         ELSE LET acc2 == DictPut(acc, toks[i].s, r.val) IN
              IF toks[r.nxt].k = "rbrace" THEN POk(JDict(acc2), r.nxt + 1)
              ELSE IF toks[r.nxt].k = "comma"
                   THEN ParseMembers(toks, r.nxt + 1, acc2)
                   ELSE PFail

\* elements of an array from position i (a value is expected there)
ParseElements(toks, i, acc) ==
    LET r == ParseValue(toks, i) IN
    IF ~r.ok \/ r.nxt > Len(toks) THEN PFail
    ELSE LET acc2 == Append(acc, <<"", r.val>>) IN
         IF toks[r.nxt].k = "rbracket" THEN POk(JList(acc2), r.nxt + 1)
         ELSE IF toks[r.nxt].k = "comma"
              THEN ParseElements(toks, r.nxt + 1, acc2)
              ELSE PFail

ParseValue(toks, i) ==
    IF i > Len(toks) THEN PFail
    ELSE LET t == toks[i] IN
         CASE t.k = "str" -> POk(JStr(t.s), i + 1)
           [] t.k = "num" -> POk(JNum(t.n), i + 1)
           [] t.k = "lit" -> POk(LitValue(t.s), i + 1)
           [] t.k = "lbrace" ->
                IF i + 1 <= Len(toks) /\ toks[i + 1].k = "rbrace"
                THEN POk(JDict(<<>>), i + 2)
                ELSE ParseMembers(toks, i + 1, <<>>)
           [] t.k = "lbracket" ->
                IF i + 1 <= Len(toks) /\ toks[i + 1].k = "rbracket"
                THEN POk(JList(<<>>), i + 2)
                ELSE ParseElements(toks, i + 1, <<>>)
           [] OTHER -> PFail

\* the outcome of a call that returns a value or raises
Returned(v) == [err |-> "none", val |-> v]
Raised(e) == [err |-> e, val |-> None]

json_loads(text) ==
    LET r == ParseValue(text, 1) IN
    IF r.ok /\ r.nxt = Len(text) + 1
    THEN Returned(r.val)
    ELSE Raised("JSONDecodeError")

(***************************************************************************)
(* json.dumps, whitespace dropped.                                         *)
(***************************************************************************)
RECURSIVE json_dumps(_)
RECURSIVE DumpItems(_, _, _)

DumpItems(m, i, isDict) ==
    IF i > Len(m) THEN <<>>
    ELSE (IF i > 1 THEN <<Comma>> ELSE <<>>)
         \o (IF isDict THEN <<StrTok(m[i][1]), Colon>> ELSE <<>>)
         \o json_dumps(m[i][2])
         \o DumpItems(m, i + 1, isDict)

json_dumps(v) ==
    CASE v.t = "str" -> <<StrTok(v.s)>>
      [] v.t = "num" -> <<NumTok(v.n)>>
      [] v.t = "bool" -> <<LitTok(v.s)>>
      [] v.t = "none" -> <<LitTok("null")>>
      [] v.t = "dict" -> <<LBrace>> \o DumpItems(v.m, 1, TRUE) \o <<RBrace>>
      [] v.t = "list" -> <<LBracket>> \o DumpItems(v.m, 1, FALSE) \o <<RBracket>>

(***************************************************************************)
(* re.search(r"\{[\s\S]*\}", text): the leftmost "{" that has a "}" after  *)
(* it, and, the star being greedy, everything up to the last "}".          *)
(***************************************************************************)
BraceAt(text, kind) == {i \in 1..Len(text) : text[i].k = kind}
Min(S) == CHOOSE x \in S : \A y \in S : x <= y
Max(S) == CHOOSE x \in S : \A y \in S : x >= y

\* a variant with a lazy star: up to the first "}" after the leftmost "{"
re_search_lazy(text) ==
    LET lbs == BraceAt(text, "lbrace")
        rbs == BraceAt(text, "rbrace")
    IN IF lbs = {} \/ rbs = {} \/ Max(rbs) < Min(lbs)
       THEN [found |-> FALSE, group |-> <<>>]
       ELSE [found |-> TRUE,
             group |-> SubSeq(text, Min(lbs), Min({r \in rbs : r > Min(lbs)}))]

re_search(text) ==
    LET lbs == BraceAt(text, "lbrace")
        rbs == BraceAt(text, "rbrace")
    IN IF lbs = {} \/ rbs = {} \/ Max(rbs) < Min(lbs)
       THEN [found |-> FALSE, group |-> <<>>]
       ELSE [found |-> TRUE, group |-> SubSeq(text, Min(lbs), Max(rbs))]

\* a variant that answers a text without any {...} block with a default
\* selection instead of raising
extract_json_object_guess(text) ==
    LET direct == json_loads(text) IN
    IF direct.err = "none" THEN direct
    ELSE LET match == re_search(text) IN
         IF ~match.found
         THEN Returned(JDict(<< <<"name", JStr("echo")>>, <<"arguments", JDict(<<>>)>> >>))
         ELSE json_loads(match.group)

\* _extract_json_object: direct parse, else the regex match parsed
extract_json_object(text) ==
    LET direct == json_loads(text) IN
    IF direct.err = "none" THEN direct
    ELSE LET match == re_search(text) IN
         IF ~match.found
         THEN Raised("ValueError")
         ELSE json_loads(match.group)


(***************************************************************************)
(* The remote side: server.py.                                             *)
(***************************************************************************)
\* a property of an input schema: its name, its "type" ("" when the schema
\* has no "type" key) and the "type"s of its "anyOf" members (<<>> when the
\* schema has no "anyOf" key; "" for a member without a "type")
Prop(name, type, anyOf) == [name |-> name, type |-> type, anyOf |-> anyOf]

\* types.Tool(name, description, inputSchema{properties, required})
Tool(name, description, properties, required) ==
    [name |-> name, description |-> description,
     properties |-> properties, required |-> required]

\* handle_list_tools: the catalog server.py advertises
handle_list_tools ==
    << Tool("echo", "Echo back the input text",
            <<Prop("text", "string", <<>>)>>, <<"text">>),
       Tool("current_time", "Get the current date and time", <<>>, <<>>),
       Tool("add_numbers", "Add two numbers together",
            <<Prop("a", "number", <<>>), Prop("b", "number", <<>>)>>,
            <<"a", "b">>) >>

\* the names in a catalog
ToolNames(catalog) == {catalog[i].name : i \in 1..Len(catalog)}

\* the catalog entry of a name that is in the catalog
ToolNamed(catalog, name) ==
    catalog[CHOOSE i \in 1..Len(catalog) : catalog[i].name = name]

\* a text built by an f-string: the format and the values put into it
Text(fmt, args) == [fmt |-> fmt, args |-> args]

\* decimal strings of the model and the number each one denotes
Digits == {"7", "5"}
DigitsValue(s) == IF s = "7" THEN 7 ELSE 5

\* str(v) inside an f-string: a string of digits and the number it spells
\* display the same characters
PyStr(v) == IF v.t = "str" /\ v.s \in Digits THEN JNum(DigitsValue(v.s)) ELSE v

\* bool(v): Python truthiness
Truthy(v) ==
    CASE v.t = "none" -> FALSE
      [] v.t = "bool" -> v.s = "true"
      [] v.t = "num" -> v.n # 0
      [] v.t = "str" -> v.s # ""
      [] OTHER -> Len(v.m) > 0

\* d.get(key): the value, or None
DictGet(d, key) == IF HasKey(d, key) THEN Get(d, key) ELSE None

\* d.get(key, default)
DictGetOr(d, key, default) == IF HasKey(d, key) THEN Get(d, key) ELSE default

\* a number as Python arithmetic sees it (bool is an int)
IsNumeric(v) == v.t \in {"num", "bool"}
AsInt(v) == IF v.t = "bool" THEN (IF v.s = "true" THEN 1 ELSE 0) ELSE v.n

\* a variant that reads a string of digits as the number it spells
PyAdd_coerce(a, b) ==
    LET num(v) == IF v.t = "str" /\ v.s \in Digits THEN JNum(DigitsValue(v.s)) ELSE v IN
    IF IsNumeric(num(a)) /\ IsNumeric(num(b))
    THEN Returned(JNum(AsInt(num(a)) + AsInt(num(b))))
    ELSE IF a.t = "str" /\ b.t = "str"
         THEN Returned(JV("strcat", "", 0, << <<"", a>>, <<"", b>> >>))
         ELSE Raised("TypeError")

\* a + b in Python: numbers add, strings concatenate, anything else raises
PyAdd(a, b) ==
    IF IsNumeric(a) /\ IsNumeric(b) THEN Returned(JNum(AsInt(a) + AsInt(b)))
    ELSE IF a.t = "str" /\ b.t = "str"
         THEN Returned(JV("strcat", "", 0, << <<"", a>>, <<"", b>> >>))
         ELSE Raised("TypeError")

\* types.TextContent(type="text", text=...)
TextContent(text) == [type |-> "text", text |-> text]

\* what a handler does: the content list it returns, or the exception it
\* raises with its message
Returns(content) == [err |-> "none", content |-> content]
Raises(e, message) ==
    [err |-> e, content |-> <<TextContent(Text(message, <<>>))>>]

\* a variant of the add_numbers branch that refuses only when both a and
\* b are absent
add_numbers_bothAbsent(arguments) ==
    IF ~Truthy(arguments)
    THEN Raises("ValueError", "Arguments required for add_numbers")
    ELSE LET a == DictGet(arguments, "a")
             b == DictGet(arguments, "b")
         IN IF a = None /\ b = None
            THEN Raises("ValueError", "Both 'a' and 'b' parameters are required")
            ELSE LET sum == PyAdd(a, b) IN
                 IF sum.err # "none"
                 THEN Raises(sum.err, "unsupported operand type(s) for +")
                 ELSE Returns(<<TextContent(
                          Text("Result: {a} + {b} = {result}",
                               <<PyStr(a), PyStr(b), PyStr(sum.val)>>))>>)

\* handle_call_tool, the add_numbers branch
add_numbers(arguments) ==
    IF ~Truthy(arguments)
    THEN Raises("ValueError", "Arguments required for add_numbers")
    ELSE LET a == DictGet(arguments, "a")
             b == DictGet(arguments, "b")
         IN IF a = None \/ b = None
            THEN Raises("ValueError", "Both 'a' and 'b' parameters are required")
            ELSE LET sum == PyAdd(a, b) IN
                 IF sum.err # "none"
                 THEN Raises(sum.err, "unsupported operand type(s) for +")
                 ELSE Returns(<<TextContent(
                          Text("Result: {a} + {b} = {result}",
                               <<PyStr(a), PyStr(b), PyStr(sum.val)>>))>>)

\* handle_call_tool, the echo branch
echo(arguments) ==
    LET text == IF Truthy(arguments)
                THEN DictGetOr(arguments, "text", JStr(""))
                ELSE JStr("")
    IN Returns(<<TextContent(Text("Echo: {text}", <<PyStr(text)>>))>>)

\* a variant of the last branch that answers an unknown name with nothing
unknown_tool_silent(name) == Returns(<<>>)

\* handle_call_tool, the last branch: raise ValueError(f"Unknown tool: {name}")
unknown_tool(name) ==
    [err |-> "ValueError",
     content |-> <<TextContent(Text("Unknown tool: {name}", <<JStr(name)>>))>>]

\* handle_call_tool(name, arguments); arguments is a dict or None
handle_call_tool(name, arguments) ==
    CASE name = "echo" -> echo(arguments)
      [] name = "current_time" ->
           Returns(<<TextContent(Text("Current time: {current_time}", <<>>))>>)
      [] name = "add_numbers" -> add_numbers(arguments)
      [] OTHER -> unknown_tool(name)

\* the CallToolResult the client receives: an exception raised by the
\* handler arrives as an error result carrying its message
CallToolResult(outcome) ==
    [isError |-> outcome.err # "none",
     content |-> outcome.content,
     structuredContent |-> None]

NoResult == [isError |-> FALSE, content |-> <<>>, structuredContent |-> None]

(***************************************************************************)
(* The pydantic models of the structured clients.  A model instance is a   *)
(* value tagged "model" that carries its class name and its fields.        *)
(***************************************************************************)
Model(class, fields) == JV("model", class, 0, fields)

\* obj.attr on a model instance
Attr(obj, attr) == Get(obj, attr)

\* an int field: an int is taken as it is, a bool as 0 or 1, a string of
\* digits as the number it spells; everything else is refused
IntField(v) ==
    CASE v.t = "num" -> Returned(v)
      [] v.t = "bool" -> Returned(JNum(AsInt(v)))
      [] v.t = "str" /\ v.s \in Digits -> Returned(JNum(DigitsValue(v.s)))
      [] OTHER -> Raised("ValidationError")

\* a str field takes a string only
StrField(v) == IF v.t = "str" THEN Returned(v) ELSE Raised("ValidationError")

\* a Dict[str, Any] field takes any mapping, values untouched
DictField(v) == IF v.t = "dict" THEN Returned(v) ELSE Raised("ValidationError")

Field(name, type) == [name |-> name, type |-> type]

FieldValue(type, v) ==
    CASE type = "int" -> IntField(v)
      [] type = "str" -> StrField(v)
      [] OTHER -> DictField(v)

\* class.model_validate(v) for a class whose fields are all required and
\* scalar: every field present and acceptable; keys that are no field of
\* the class are ignored (pydantic's default extra="ignore")
ValidateModel(class, fields, v) ==
    IF /\ v.t = "dict"
       /\ \A i \in 1..Len(fields) :
             /\ HasKey(v, fields[i].name)
             /\ FieldValue(fields[i].type, Get(v, fields[i].name)).err = "none"
    THEN Returned(Model(class,
             [i \in 1..Len(fields) |->
                 <<fields[i].name,
                   FieldValue(fields[i].type, Get(v, fields[i].name)).val>>]))
    ELSE Raised("ValidationError")

\* class GetBlogPostsArgs / AddBlogPostArgs / RemoveBlogPostArgs
GetBlogPostsArgs(v) == ValidateModel("GetBlogPostsArgs", <<Field("limit", "int")>>, v)
AddBlogPostArgs(v) ==
    ValidateModel("AddBlogPostArgs", <<Field("title", "str"), Field("content", "str")>>, v)
RemoveBlogPostArgs(v) == ValidateModel("RemoveBlogPostArgs", <<Field("id", "int")>>, v)

\* Union[GetBlogPostsArgs, AddBlogPostArgs, RemoveBlogPostArgs]: the
\* instances the union may produce (any member that accepts the value)
UnionArgs(v) ==
    {r.val : r \in {x \in {GetBlogPostsArgs(v), AddBlogPostArgs(v), RemoveBlogPostArgs(v)} :
                       x.err = "none"}}

\* test2 ToolSelection(name: str, arguments: Union[...]): the outcomes of
\* validating v
ToolSelection(v) ==
    IF /\ v.t = "dict"
       /\ HasKey(v, "name") /\ StrField(Get(v, "name")).err = "none"
       /\ HasKey(v, "arguments") /\ UnionArgs(Get(v, "arguments")) # {}
    THEN {Returned(Model("ToolSelection",
                         << <<"name", Get(v, "name")>>, <<"arguments", a>> >>)) :
             a \in UnionArgs(Get(v, "arguments"))}
    ELSE {Raised("ValidationError")}

\* test-mcp ToolSelection(name: str, arguments: Dict[str, Any])
ToolSelection_testmcp(v) ==
    IF /\ v.t = "dict"
       /\ HasKey(v, "name") /\ StrField(Get(v, "name")).err = "none"
       /\ HasKey(v, "arguments") /\ DictField(Get(v, "arguments")).err = "none"
    THEN {Returned(Model("ToolSelection",
                         << <<"name", Get(v, "name")>>,
                            <<"arguments", Get(v, "arguments")>> >>))}
    ELSE {Raised("ValidationError")}

\* model_dump(): a model instance, and every instance nested in it, as a
\* plain dict
RECURSIVE model_dump(_)
model_dump(v) ==
    IF v.t = "model"
    THEN JDict([i \in 1..Len(v.m) |-> <<v.m[i][1], model_dump(v.m[i][2])>>])
    ELSE v

\* mcp-client.py ToolCall(name: str, arguments: dict)
ToolCall(v) ==
    IF /\ v.t = "dict"
       /\ HasKey(v, "name") /\ StrField(Get(v, "name")).err = "none"
       /\ HasKey(v, "arguments") /\ DictField(Get(v, "arguments")).err = "none"
    THEN {Returned(Model("ToolCall",
                         << <<"name", Get(v, "name")>>,
                            <<"arguments", Get(v, "arguments")>> >>))}
    ELSE {Raised("ValidationError")}

(***************************************************************************)
(* The prompt fragment.  A prompt is the sequence of its lines.            *)
(***************************************************************************)
Line(kind, a, b, c) == [kind |-> kind, a |-> a, b |-> b, c |-> c]

\* a variant that does not skip "null"
ArgType_firstMember(p) ==
    IF Len(p.anyOf) > 0
    THEN (IF p.anyOf[1] = "" THEN "None" ELSE p.anyOf[1])
    ELSE (IF p.type = "" THEN "any" ELSE p.type)

\* the type shown for a parameter: "type", "any" without one, and with
\* "anyOf" the first member type that is not "null" ("" is a member that
\* has no "type": its t.get("type") is None)
ArgType(p) ==
    LET declared == IF p.type = "" THEN "any" ELSE p.type
        types == SelectSeq(p.anyOf, LAMBDA t : t # "null")
    IN IF Len(p.anyOf) > 0 /\ Len(types) > 0
       THEN (IF types[1] = "" THEN "None" ELSE types[1])
       ELSE declared

\* arg_name in required_args
InSeq(x, s) == \E i \in 1..Len(s) : s[i] = x

\* a variant that lists the parameters last to first
ToolLines_reversed(tool) ==
    LET n == Len(tool.properties) IN
    <<Line("tool", tool.name, "", "")>>
    \o (IF tool.description # ""
        THEN <<Line("description", tool.description, "", "")>>
        ELSE <<>>)
    \o (IF n = 0
        THEN <<Line("arguments-none", "", "", "")>>
        ELSE <<Line("arguments", "", "", "")>>
             \o [i \in 1..n |->
                    Line("arg", tool.properties[n + 1 - i].name,
                         ArgType(tool.properties[n + 1 - i]),
                         IF InSeq(tool.properties[n + 1 - i].name, tool.required)
                         THEN "required" ELSE "optional")])

\* the lines create_tool_prompt appends for one tool
ToolLines(tool) ==
    <<Line("tool", tool.name, "", "")>>
    \o (IF tool.description # ""
        THEN <<Line("description", tool.description, "", "")>>
        ELSE <<>>)
    \o (IF Len(tool.properties) = 0
        THEN <<Line("arguments-none", "", "", "")>>
        ELSE <<Line("arguments", "", "", "")>>
             \o [i \in 1..Len(tool.properties) |->
                    Line("arg", tool.properties[i].name,
                         ArgType(tool.properties[i]),
                         IF InSeq(tool.properties[i].name, tool.required)
                         THEN "required" ELSE "optional")])

RECURSIVE AllToolLines(_, _)
AllToolLines(catalog, i) ==
    IF i > Len(catalog) THEN <<>>
    ELSE ToolLines(catalog[i]) \o AllToolLines(catalog, i + 1)

\* test2 create_tool_prompt(tool_list)
create_tool_prompt(catalog) ==
    <<Line("intro", "You are an expert tool selector.", "", ""),
      Line("intro", "Here are the available tools:", "", "")>>
    \o AllToolLines(catalog, 1)

\* test-mcp create_tool_prompt(tool_list): one "- name: description" line
\* for each tool
create_tool_prompt_testmcp(catalog) ==
    <<Line("intro", "You are an expert tool selector.", "", ""),
      Line("intro", "Here are the available tools:", "", "")>>
    \o [i \in 1..Len(catalog) |->
           Line("tool", catalog[i].name, catalog[i].description, "")]

(***************************************************************************)
(* What the language model may answer.                                     *)
(***************************************************************************)
\* all sequences over A of length at most n
SeqsUpTo(A, n) == UNION {[1..k -> A] : k \in 0..n}

\* the lexemes a short answer is enumerated over
RawAlphabet == {LBrace, RBrace, LBracket, RBracket, StrTok("name"), NumTok(7), Word}
RawTexts == SeqsUpTo(RawAlphabet, MaxRaw)

\* the prose a model puts around its JSON: words and stray braces
ProseAlphabet == {Word, LBrace, RBrace}
Prose == SeqsUpTo(ProseAlphabet, MaxWrap)

\* the argument values the model may give for each key, in key order
KeyValues ==
    << <<"a", {JNum(7), JStr("7"), JBool("true")}>>,
       <<"b", {JNum(5), JStr("abc")}>>,
       <<"text", {JStr("hi")}>>,
       <<"limit", {JNum(5), JStr("5")}>>,
       <<"id", {JNum(3)}>>,
       <<"extra", {JDict(<< <<"x", JNum(1)>> >>)}>> >>

RECURSIVE ItemsFrom(_)
ItemsFrom(i) ==
    IF i > Len(KeyValues) THEN {<<>>}
    ELSE LET rest == ItemsFrom(i + 1) IN
         rest \cup {<< <<KeyValues[i][1], v>> >> \o r : v \in KeyValues[i][2], r \in rest}

ArgDicts == {JDict(m) : m \in ItemsFrom(1)}

\* tool names the model may pick; "subtract_numbers" is in no catalog
Names == {"add_numbers", "echo", "current_time", "subtract_numbers"}

Sel(name, arguments) == JDict(<< <<"name", JStr(name)>>, <<"arguments", arguments>> >>)

\* {name, arguments} objects: the name a string, the arguments a mapping
\* or null
Selections == {Sel(n, a) : n \in Names, a \in ArgDicts \cup {None}}

\* objects that are no selection
Malformed ==
    {JDict(<<>>),
     JDict(<< <<"name", JStr("add_numbers")>> >>),
     JDict(<< <<"arguments", JDict(<< <<"a", JNum(7)>> >>)>> >>)}

Objects == Selections \cup Malformed

\* the objects that are also tried inside prose
WrapObjects ==
    {Sel("add_numbers", JDict(<< <<"a", JNum(7)>>, <<"b", JNum(5)>> >>)),
     Sel("add_numbers", JDict(<< <<"a", JNum(7)>> >>)),
     Sel("subtract_numbers", JDict(<< <<"a", JNum(7)>>, <<"b", JNum(5)>> >>)),
     Sel("echo", JDict(<< <<"text", JStr("hi")>>,
                          <<"extra", JDict(<< <<"x", JNum(1)>> >>)>> >>)),
     JDict(<< <<"name", JStr("add_numbers")>> >>),
     JDict(<<>>)}

\* the numbers the model may give to add_numbers, and its selections of
\* add_numbers with two of them
Numbers == {-3, 0, 5, 7}
SumObjects ==
    {Sel("add_numbers", JDict(<< <<"a", JNum(a)>>, <<"b", JNum(b)>> >>)) :
        a \in Numbers, b \in Numbers}

\* how an answer was put together (kept beside the text it produced)
Gen(kind, obj, pre, suf) == [kind |-> kind, obj |-> obj, pre |-> pre, suf |-> suf]
NoGen == Gen("none", None, <<>>, <<>>)

\* free-text answers: short lexeme sequences, an object alone or inside
\* prose, and two objects with prose between them
TextAnswers ==
    {Gen("raw", None, t, <<>>) : t \in RawTexts}
    \cup {Gen("wrapped", o, <<>>, <<>>) : o \in Objects}
    \cup {Gen("wrapped", o, pre, suf) : o \in WrapObjects, pre \in Prose, suf \in Prose}
    \cup {Gen("wrapped", o, pre, <<>>) : o \in SumObjects, pre \in Prose}
    \cup {Gen("pair", o, <<>>, mid \o json_dumps(o2)) :
             o \in WrapObjects, mid \in Prose, o2 \in WrapObjects}

\* answers of a model held to a JSON format: an object, or a short text
StructuredAnswers ==
    {Gen("wrapped", o, <<>>, <<>>) : o \in Objects}
    \cup {Gen("raw", None, t, <<>>) : t \in SeqsUpTo({NumTok(7), Word}, 1)}

\* the text of an answer
AnswerText(g) ==
    IF g.kind = "raw" THEN g.pre ELSE g.pre \o json_dumps(g.obj) \o g.suf

(***************************************************************************)
(* The dispatch cycle.                                                     *)
(***************************************************************************)
VARIABLES
    flow,        \* the client script that runs
    pc,          \* the statement it is at
    session,     \* "none", "open", "initialized", "closed"
    tools,       \* the catalog list_tools returned
    prompt,      \* dynamic_tool_prompt
    inputsLeft,  \* user inputs not yet finished
    content,     \* the model's answer text
    gen,         \* how that answer was put together
    choice,      \* the selection recovered from it
    error,       \* the exception that ended the cycle
    calls,       \* the session.call_tool calls of this cycle
    result,      \* the result of the last call
    output,      \* the result lines printed in this cycle
    requests,    \* the requests made to the language model in this session
    server,      \* the blog or memory server script that runs ("none": none)
    store,       \* the SQLite file that server works on
    op           \* the last operation of that server

vars == <<flow, pc, session, tools, prompt, inputsLeft, content, gen, choice,
          error, calls, result, output, requests, server, store, op>>

Flows == {"test3", "test4", "testmcp", "test2", "mcpclient", "srcclient"}
\* the clients that read the selection out of free text
TextFlows == {"test3", "test4"}
\* the clients whose model call returns a validated object
StructuredFlows == {"testmcp", "test2", "mcpclient", "srcclient"}
\* the clients that build a prompt from the catalog and loop over inputs
PromptFlows == {"testmcp", "test2"}
\* the clients that hold the arguments as one of three argument models
UnionFlows == {"test2", "srcclient"}
\* the clients that ask the model before they open the session
AskFirstFlows == {"test4", "srcclient"}

Error(type, at) == [type |-> type, at |-> at]
NoError == Error("none", "none")

\* no database server is part of a client's dispatch cycle
NoStore == [table |-> FALSE, indexes |-> {}, rows |-> <<>>, seq |-> 0]
NoOp == [name |-> "none", args |-> <<>>, query |-> <<>>, params |-> <<>>,
         ret |-> Returned(None)]

Init ==
    /\ flow \in Flows
    /\ pc = IF flow \in AskFirstFlows THEN "chat" ELSE "connect"
    /\ session = "none"
    /\ tools = <<>>
    /\ prompt = <<>>
    /\ inputsLeft \in IF flow \in PromptFlows THEN 1..MaxInputs ELSE {1}
    /\ content = <<>>
    /\ gen = NoGen
    /\ choice = None
    /\ error = NoError
    /\ calls = <<>>
    /\ result = NoResult
    /\ output = <<>>
    /\ requests = <<>>
    /\ server = "none"
    /\ store = NoStore
    /\ op = NoOp

\* a variant in which only the model call stands inside a try block
Guarded_chatOnly == flow = "mcpclient" /\ pc = "chat"

\* the statements of mcp-client.py that stand inside a try ... except
\* Exception block
Guarded == flow = "mcpclient" /\ pc \in {"chat", "call", "print"}

\* a variant in which an exception leaves the session as it is
Abort_leaveOpen(type) ==
    /\ error' = Error(type, pc)
    /\ pc' = IF Guarded THEN "except" ELSE "failed"
    /\ session' = session

\* an exception is raised: inside a try block it is caught by the handler,
\* anywhere else it leaves the cycle and the context managers close the
\* session
Abort(type) ==
    /\ error' = Error(type, pc)
    /\ IF Guarded
       THEN pc' = "except" /\ session' = session
       ELSE /\ pc' = "failed"
            /\ session' = IF session \in {"open", "initialized"}
                           THEN "closed" ELSE session

\* async with streamablehttp_client(...), ClientSession(...) as session
Connect ==
    /\ pc = "connect"
    /\ session' = "open"
    /\ pc' = "initialize"
    /\ UNCHANGED <<flow, tools, prompt, inputsLeft, content, gen, choice,
                   error, calls, result, output, requests,
                   server, store, op>>

\* await session.initialize()
Initialize ==
    /\ pc = "initialize"
    /\ session' = "initialized"
    /\ pc' = IF flow \in AskFirstFlows THEN "call" ELSE "list_tools"
    /\ UNCHANGED <<flow, tools, prompt, inputsLeft, content, gen, choice,
                   error, calls, result, output, requests,
                   server, store, op>>

\* await session.list_tools()
ListTools ==
    /\ pc = "list_tools"
    /\ tools' = handle_list_tools
    /\ pc' = IF flow \in PromptFlows THEN "prompt" ELSE "chat"
    /\ UNCHANGED <<flow, session, prompt, inputsLeft, content, gen, choice,
                   error, calls, result, output, requests,
                   server, store, op>>

\* dynamic_tool_prompt = create_tool_prompt(tool_list)
CreatePrompt ==
    /\ pc = "prompt"
    /\ prompt' = IF flow = "test2"
                 THEN create_tool_prompt(tools)
                 ELSE create_tool_prompt_testmcp(tools)
    /\ pc' = "chat"
    /\ UNCHANGED <<flow, session, tools, inputsLeft, content, gen, choice,
                   error, calls, result, output, requests,
                   server, store, op>>

\* tools_json = [t.model_dump() for t in tools_result.tools], as the lines
\* it adds to the request
tools_json(catalog) ==
    [i \in 1..Len(catalog) |-> Line("json", catalog[i].name, catalog[i].description, "")]

\* the request a client makes to the language model: what it puts before
\* the user input, and which input it is
Request ==
    [fragment |-> CASE flow \in PromptFlows -> prompt
                    [] flow \in {"test3", "mcpclient"} -> tools_json(tools)
                    [] OTHER -> <<>>,
     input |-> inputsLeft]

\* _ollama_chat / choose_with_langchain: the model answers with some text
Chat ==
    /\ pc = "chat"
    /\ flow \in TextFlows
    /\ \E g \in TextAnswers :
          /\ gen' = g
          /\ content' = AnswerText(g)
    /\ requests' = Append(requests, Request)
    /\ pc' = IF flow = "test3" THEN "extract" ELSE "loads"
    /\ UNCHANGED <<flow, session, tools, prompt, inputsLeft, choice, error,
                   calls, result, output,
                   server, store, op>>

\* a variant that goes on to the call after the backend raised
ChatRaises_ignored ==
    /\ pc = "chat"
    /\ error' = Error("LLMError", pc)
    /\ pc' = "call"
    /\ requests' = Append(requests, Request)
    /\ UNCHANGED <<flow, session, tools, prompt, inputsLeft, content, gen,
                   choice, calls, result, output,
                   server, store, op>>

\* the model backend raises
ChatRaises ==
    /\ pc = "chat"
    /\ Abort("LLMError")
    /\ requests' = Append(requests, Request)
    /\ UNCHANGED <<flow, tools, prompt, inputsLeft, content, gen, choice,
                   calls, result, output,
                   server, store, op>>

\* structured_llm.invoke(full_prompt): the answer parsed into ToolSelection
StructuredInvoke ==
    /\ pc = "chat"
    /\ flow \in StructuredFlows
    /\ \E g \in StructuredAnswers :
          LET parsed == json_loads(AnswerText(g)) IN
          /\ gen' = g
          /\ content' = AnswerText(g)
          /\ IF parsed.err # "none"
             THEN Abort("OutputParserException") /\ choice' = choice
             ELSE \E r \in (CASE flow \in UnionFlows -> ToolSelection(parsed.val)
                              [] flow = "testmcp" -> ToolSelection_testmcp(parsed.val)
                              [] OTHER -> ToolCall(parsed.val)) :
                     IF r.err # "none"
                     THEN Abort(r.err) /\ choice' = choice
                     ELSE /\ choice' = r.val
                          /\ pc' = IF flow = "srcclient" THEN "connect" ELSE "call"
                          /\ UNCHANGED <<error, session>>
    /\ requests' = Append(requests, Request)
    /\ UNCHANGED <<flow, tools, prompt, inputsLeft, calls, result, output,
                   server, store, op>>

\* choice = _extract_json_object(content)
Extract ==
    /\ pc = "extract"
    /\ LET r == extract_json_object(content) IN
       IF r.err # "none"
       THEN Abort(r.err) /\ choice' = choice
       ELSE /\ choice' = r.val
            /\ pc' = "validate"
            /\ UNCHANGED <<error, session>>
    /\ UNCHANGED <<flow, tools, prompt, inputsLeft, content, gen, calls,
                   result, output, requests,
                   server, store, op>>

\* a variant that forgets to look for "arguments"
ValidChoice_nameOnly(c) == IsDict(c) /\ HasKey(c, "name")

\* isinstance(choice, dict) and "name" in choice and "arguments" in choice
ValidChoice(c) == IsDict(c) /\ HasKey(c, "name") /\ HasKey(c, "arguments")

\* if not ValidChoice: raise ValueError("Invalid tool choice JSON")
Validate ==
    /\ pc = "validate"
    /\ IF ~ValidChoice(choice)
       THEN Abort("ValueError")
       ELSE pc' = "call" /\ UNCHANGED <<error, session>>
    /\ UNCHANGED <<flow, tools, prompt, inputsLeft, content, gen, choice,
                   calls, result, output, requests,
                   server, store, op>>

\* choice = json.loads(choose_with_langchain(expr).content)
JsonLoads ==
    /\ pc = "loads"
    /\ LET r == json_loads(content) IN
       IF r.err # "none"
       THEN Abort(r.err) /\ choice' = choice
       ELSE /\ choice' = r.val
            /\ pc' = "connect"
            /\ UNCHANGED <<error, session>>
    /\ UNCHANGED <<flow, tools, prompt, inputsLeft, content, gen, calls,
                   result, output, requests,
                   server, store, op>>

\* a variant that reads with v.get(key): a missing key gives None
Subscript_get(v, key) ==
    IF ~IsDict(v) THEN Raised("TypeError")
    ELSE Returned(DictGet(v, key))

\* v[key] with a string key
Subscript(v, key) ==
    IF ~IsDict(v) THEN Raised("TypeError")
    ELSE IF ~HasKey(v, key) THEN Raised("KeyError")
         ELSE Returned(Get(v, key))

\* a variant that hands over only the keys the named tool declares
CallOperands_declaredOnly ==
    LET c == IF flow \in UnionFlows THEN model_dump(choice) ELSE choice
        name == IF flow \in {"testmcp", "mcpclient"}
                THEN Returned(Attr(c, "name")) ELSE Subscript(c, "name")
        arguments == IF flow \in {"testmcp", "mcpclient"}
                     THEN Returned(Attr(c, "arguments"))
                     ELSE Subscript(c, "arguments")
        declared == IF name.err = "none" /\ name.val.s \in ToolNames(handle_list_tools)
                    THEN LET tool == ToolNamed(handle_list_tools, name.val.s) IN
                         {tool.properties[i].name : i \in 1..Len(tool.properties)}
                    ELSE {}
    IN [name |-> name,
        arguments |->
            IF arguments.err = "none" /\ arguments.val.t = "dict"
            THEN Returned(JDict(SelectSeq(arguments.val.m, LAMBDA it : it[1] \in declared)))
            ELSE arguments]

\* the name and the arguments expressions of the call_tool statement
CallOperands ==
    CASE flow \in TextFlows ->
           [name |-> Subscript(choice, "name"),
            arguments |-> Subscript(choice, "arguments")]
      [] flow \in UnionFlows ->
           [name |-> Subscript(model_dump(choice), "name"),
            arguments |-> Subscript(model_dump(choice), "arguments")]
      [] OTHER ->
           [name |-> Returned(Attr(choice, "name")),
            arguments |-> Returned(Attr(choice, "arguments"))]

Call(name, arguments) == [name |-> name, arguments |-> arguments]

\* result = await session.call_tool(name, arguments), the server answering
CallTool ==
    /\ pc = "call"
    /\ LET ops == CallOperands IN
       IF ops.name.err # "none"
       THEN Abort(ops.name.err) /\ UNCHANGED <<calls, result>>
       ELSE IF ops.arguments.err # "none"
            THEN Abort(ops.arguments.err) /\ UNCHANGED <<calls, result>>
            ELSE /\ calls' = Append(calls, Call(ops.name.val, ops.arguments.val))
                 /\ result' = CallToolResult(
                        handle_call_tool(ops.name.val.s, ops.arguments.val))
                 /\ pc' = "print"
                 /\ UNCHANGED <<error, session>>
    /\ UNCHANGED <<flow, tools, prompt, inputsLeft, content, gen, choice, output, requests,
                   server, store, op>>

\* a variant that issues the call again after a fault
CallToolFault_retry ==
    /\ pc = "call"
    /\ LET ops == CallOperands IN
       /\ ops.name.err = "none"
       /\ ops.arguments.err = "none"
       /\ calls' = Append(calls, Call(ops.name.val, ops.arguments.val))
    /\ Len(calls) < 2
    /\ error' = Error("McpError", pc)
    /\ UNCHANGED <<flow, pc, session, tools, prompt, inputsLeft, content, gen,
                   choice, result, output, requests,
                   server, store, op>>

\* the same statement when the transport fails: call_tool raises
CallToolFault ==
    /\ pc = "call"
    /\ LET ops == CallOperands IN
       /\ ops.name.err = "none"
       /\ ops.arguments.err = "none"
       /\ calls' = Append(calls, Call(ops.name.val, ops.arguments.val))
    /\ Abort("McpError")
    /\ UNCHANGED <<flow, tools, prompt, inputsLeft, content, gen, choice,
                   result, output, requests,
                   server, store, op>>

\* a variant that takes every content item for a text item
TextBlocks_all(r) == r.content

\* the text items of a result
TextBlocks(r) == SelectSeq(r.content, LAMBDA b : b.type = "text")

\* a variant in which no client looks at the structured value
Printed_noStructured(r) ==
    LET blocks == TextBlocks(r)
        texts == [i \in 1..Len(blocks) |-> blocks[i].text]
    IN IF Len(blocks) = 0 THEN <<Text("json.dumps(result)", <<>>)>>
       ELSE IF flow \in {"test3", "test4", "mcpclient"} THEN <<texts[1]>>
       ELSE IF flow = "srcclient"
            THEN <<[fmt |-> "Result: {text_blocks}", args |-> texts]>>
            ELSE texts

\* the result lines each client prints
Printed(r) ==
    LET blocks == TextBlocks(r)
        texts == [i \in 1..Len(blocks) |-> blocks[i].text]
    IN CASE flow \in {"test3", "mcpclient"} ->
              IF Len(blocks) > 0 THEN <<texts[1]>>
              ELSE IF r.structuredContent # None
                   THEN <<Text("json.dumps(structuredContent)", <<r.structuredContent>>)>>
                   ELSE <<Text("json.dumps(result)", <<>>)>>
         [] flow = "test4" ->
              IF Len(blocks) > 0 THEN <<texts[1]>>
              ELSE <<Text("json.dumps(result)", <<>>)>>
         [] flow = "test2" ->
              IF Len(blocks) > 0 THEN texts
              ELSE <<Text("json.dumps(result)", <<>>)>>
         [] flow = "srcclient" ->
              IF Len(blocks) > 0 THEN <<[fmt |-> "Result: {text_blocks}", args |-> texts]>>
              ELSE <<Text("json.dumps(result)", <<>>)>>
         [] OTHER -> texts

PrintResult ==
    /\ pc = "print"
    /\ output' = Printed(result)
    /\ pc' = "printed"
    /\ UNCHANGED <<flow, session, tools, prompt, inputsLeft, content, gen,
                   choice, error, calls, result, requests,
                   server, store, op>>

\* a variant that fetches the catalog again for every input
NextInput_refetch ==
    /\ pc = "printed"
    /\ inputsLeft > 1
    /\ inputsLeft' = inputsLeft - 1
    /\ pc' = "list_tools"
    /\ content' = <<>>
    /\ gen' = NoGen
    /\ choice' = None
    /\ calls' = <<>>
    /\ result' = NoResult
    /\ output' = <<>>
    /\ UNCHANGED <<flow, session, tools, prompt, error, requests,
                   server, store, op>>

\* for user_input in user_inputs: the next input starts a new cycle
NextInput ==
    /\ pc = "printed"
    /\ inputsLeft > 1
    /\ inputsLeft' = inputsLeft - 1
    /\ pc' = "chat"
    /\ content' = <<>>
    /\ gen' = NoGen
    /\ choice' = None
    /\ calls' = <<>>
    /\ result' = NoResult
    /\ output' = <<>>
    /\ UNCHANGED <<flow, session, tools, prompt, error, requests,
                   server, store, op>>

\* the last input is finished: the context managers close the session
Finish ==
    /\ pc = "printed"
    /\ inputsLeft = 1
    /\ inputsLeft' = 0
    /\ pc' = "done"
    /\ session' = "closed"
    /\ UNCHANGED <<flow, tools, prompt, content, gen, choice, error, calls,
                   result, output, requests,
                   server, store, op>>

\* mcp-client.py, except Exception as e: print the error and leave the
\* cycle by a plain return
ExceptPrint ==
    /\ pc = "except"
    /\ output' = <<Text(IF error.at = "chat" THEN "LLM error: {e}"
                                              ELSE "Tool call error: {e}",
                        <<JStr(error.type)>>)>>
    /\ pc' = "returned"
    /\ session' = "closed"
    /\ UNCHANGED <<flow, tools, prompt, inputsLeft, content, gen, choice,
                   error, calls, result, requests,
                   server, store, op>>

\* test-mcp main, except Exception as e: the exception that left
\* process_user_request (or the session set-up) is printed by main; the
\* inputs that are left are not processed
MainExcept ==
    /\ flow = "testmcp"
    /\ pc = "failed"
    /\ output' = <<Text("An unexpected error occurred: {e}", <<JStr(error.type)>>)>>
    /\ pc' = "reported"
    /\ UNCHANGED <<flow, session, tools, prompt, inputsLeft, content, gen,
                   choice, error, calls, result, requests,
                   server, store, op>>

\* the statements at which the cycle is suspended in an await before the
\* call
AwaitsBeforeCall == {"connect", "initialize", "list_tools"}

\* a variant in which the cancellation is swallowed and the cycle goes on
Cancel_ignored ==
    /\ pc \in AwaitsBeforeCall
    /\ error = NoError
    /\ error' = Error("CancelledError", pc)
    /\ UNCHANGED <<flow, pc, session, tools, prompt, inputsLeft, content, gen,
                   choice, calls, result, output, requests,
                   server, store, op>>

\* the task is cancelled while it waits in one of these awaits:
\* CancelledError is raised there; no except Exception clause catches it
Cancel ==
    /\ pc \in AwaitsBeforeCall
    /\ error' = Error("CancelledError", pc)
    /\ pc' = "cancelled"
    /\ session' = IF session \in {"open", "initialized"} THEN "closed" ELSE session
    /\ UNCHANGED <<flow, tools, prompt, inputsLeft, content, gen, choice,
                   calls, result, output, requests,
                   server, store, op>>

\* the task is cancelled while await session.call_tool(...) is in flight:
\* the request may or may not have reached the server
CancelCall ==
    /\ pc = "call"
    /\ LET ops == CallOperands IN
       /\ ops.name.err = "none"
       /\ ops.arguments.err = "none"
       /\ \E sent \in BOOLEAN :
             calls' = IF sent
                      THEN Append(calls, Call(ops.name.val, ops.arguments.val))
                      ELSE calls
    /\ error' = Error("CancelledError", pc)
    /\ pc' = "cancelled"
    /\ session' = "closed"
    /\ UNCHANGED <<flow, tools, prompt, inputsLeft, content, gen, choice,
                   result, output, requests,
                   server, store, op>>

Next ==
    \/ Connect
    \/ Initialize
    \/ ListTools
    \/ CreatePrompt
    \/ Chat
    \/ ChatRaises
    \/ StructuredInvoke
    \/ Extract
    \/ Validate
    \/ JsonLoads
    \/ CallTool
    \/ CallToolFault
    \/ PrintResult
    \/ NextInput
    \/ Finish
    \/ ExceptPrint
    \/ MainExcept
    \/ Cancel
    \/ CancelCall

Spec == Init /\ [][Next]_vars

(***************************************************************************)
(* The prompt builder on its own: a server advertises some catalog and     *)
(* the client builds its prompt fragment from it.                          *)
(***************************************************************************)
\* the "type" of an anyOf member ("" for a member without one) and of a
\* parameter schema ("" for a schema without one)
UnionTypes == {"null", "string", "integer", ""}
ParamTypes == {"", "string", "number", "array"}

\* the parameter schemas and the tools a server may advertise
ParamSchemas ==
    {Prop("x", t, u) : t \in ParamTypes, u \in SeqsUpTo(UnionTypes, MaxUnion)}
AnyTools ==
    {Tool("lookup", "Look something up", <<p>>, req) :
        p \in ParamSchemas, req \in {<<>>, <<"x">>}}

\* tools with two parameters: the properties mapping arrives in either key
\* order, the required list in any order
PairTools ==
    {Tool("search", "Search something",
          <<Prop(n[1], ta, <<>>), Prop(n[2], tb, <<>>)>>, req) :
        n \in {<<"x", "y">>, <<"y", "x">>},
        ta \in {"string", "integer"}, tb \in {"string", "integer"},
        req \in {<<>>, <<"x">>, <<"x", "y">>, <<"y", "x">>}}
Catalogs == {<<t>> : t \in AnyTools \cup PairTools}

InitPrompt ==
    /\ flow \in PromptFlows
    /\ pc = "prompt"
    /\ session = "initialized"
    /\ tools \in Catalogs
    /\ prompt = <<>>
    /\ inputsLeft = 1
    /\ content = <<>>
    /\ gen = NoGen
    /\ choice = None
    /\ error = NoError
    /\ calls = <<>>
    /\ result = NoResult
    /\ output = <<>>
    /\ requests = <<>>
    /\ server = "none"
    /\ store = NoStore
    /\ op = NoOp

NextPrompt == CreatePrompt

SpecPrompt == InitPrompt /\ [][NextPrompt]_vars

(***************************************************************************)
(* The result normalizer on its own: a selection is called on a server     *)
(* that may answer with any payload, and the client prints the result.     *)
(***************************************************************************)
\* a content item that is no text: types.ImageContent
ImageContent == [type |-> "image", text |-> Text("", <<>>)]

\* the content items a server may return
ContentItems ==
    {TextContent(Text("a", <<>>)), TextContent(Text("b", <<>>)), ImageContent}

\* the result payloads a server may return
Payloads ==
    {[isError |-> FALSE, content |-> c, structuredContent |-> sc] :
        c \in SeqsUpTo(ContentItems, MaxItems),
        sc \in {None, JDict(<< <<"x", JNum(1)>> >>)}}

\* the selection each client holds when it reaches call_tool
HeldChoice ==
    LET obj == Sel("get_blog_posts", JDict(<< <<"limit", JNum(5)>> >>)) IN
    CASE flow \in TextFlows -> obj
      [] flow \in UnionFlows -> (CHOOSE r \in ToolSelection(obj) : TRUE).val
      [] flow = "testmcp" -> (CHOOSE r \in ToolSelection_testmcp(obj) : TRUE).val
      [] OTHER -> (CHOOSE r \in ToolCall(obj) : TRUE).val

InitPrint ==
    /\ flow \in Flows
    /\ pc = "call"
    /\ session = "initialized"
    /\ tools = IF flow \in AskFirstFlows THEN <<>> ELSE handle_list_tools
    /\ prompt = CASE flow = "test2" -> create_tool_prompt(tools)
                  [] flow = "testmcp" -> create_tool_prompt_testmcp(tools)
                  [] OTHER -> <<>>
    /\ inputsLeft = 1
    /\ content = json_dumps(Sel("get_blog_posts", JDict(<< <<"limit", JNum(5)>> >>)))
    /\ gen = Gen("wrapped", Sel("get_blog_posts", JDict(<< <<"limit", JNum(5)>> >>)),
                 <<>>, <<>>)
    /\ choice = HeldChoice
    /\ error = NoError
    /\ calls = <<>>
    /\ result = NoResult
    /\ output = <<>>
    /\ requests = <<Request>>
    /\ server = "none"
    /\ store = NoStore
    /\ op = NoOp

\* result = await session.call_tool(name, arguments), a server answering
\* with some payload
CallToolAny ==
    /\ pc = "call"
    /\ LET ops == CallOperands IN
       /\ ops.name.err = "none"
       /\ ops.arguments.err = "none"
       /\ calls' = Append(calls, Call(ops.name.val, ops.arguments.val))
    /\ result' \in Payloads
    /\ pc' = "print"
    /\ UNCHANGED <<flow, session, tools, prompt, inputsLeft, content, gen,
                   choice, error, output, requests,
                   server, store, op>>

NextPrint ==
    \/ CallToolAny
    \/ PrintResult

SpecPrint == InitPrint /\ [][NextPrint]_vars

(***************************************************************************)
(* The servers with a database: test1/mcp-server-blogs.py, test5/index.py, *)
(* test5/mcp_tools.py and test1/mcp-server-memory.py, each on its own      *)
(* SQLite file.  A text is the sequence of its characters; a date is a     *)
(* number (ISO dates compare as texts the way these compare as numbers).   *)
(***************************************************************************)
Servers == {"blogs", "index", "mcp_tools", "memory"}
\* the scripts that are launched through init_db (run() of the test1
\* scripts, server_http.py for mcp_tools); index.py has no init_db
InitServers == {"blogs", "mcp_tools", "memory"}
\* str.lower() and str.upper(), character by character over the letters
\* of the model
lower(s) ==
    LET CasePairs == {<<"a", "A">>, <<"b", "B">>, <<"c", "C">>, <<"d", "D">>,
                      <<"e", "E">>, <<"p", "P">>, <<"s", "S">>, <<"t", "T">>,
                      <<"u", "U">>}
    IN [i \in 1..Len(s) |->
           IF \E p \in CasePairs : p[2] = s[i]
           THEN (CHOOSE p \in CasePairs : p[2] = s[i])[1] ELSE s[i]]
upper(s) ==
    LET CasePairs == {<<"a", "A">>, <<"b", "B">>, <<"c", "C">>, <<"d", "D">>,
                      <<"e", "E">>, <<"p", "P">>, <<"s", "S">>, <<"t", "T">>,
                      <<"u", "U">>}
    IN [i \in 1..Len(s) |->
           IF \E p \in CasePairs : p[1] = s[i]
           THEN (CHOOSE p \in CasePairs : p[1] = s[i])[2] ELSE s[i]]

\* a NULL column value
NULL == <<"NULL">>

\* a row of posts (or of memory, which has id and content only)
Row(id, title, author, pub_date, tags, body) ==
    [id |-> id, title |-> title, author |-> author, pub_date |-> pub_date,
     tags |-> tags, content |-> body]

\* a variant that drops the table and creates it again
init_db_recreate(script, s) ==
    [table |-> TRUE,
     indexes |-> IF script = "blogs"
                 THEN {"idx_posts_pub_date", "idx_posts_slug"} ELSE {},
     rows |-> <<>>,
     seq |-> 0]

\* init_db: CREATE TABLE IF NOT EXISTS, and in mcp-server-blogs.py the two
\* CREATE INDEX IF NOT EXISTS, then commit
init_db(script, s) ==
    [table |-> TRUE,
     indexes |-> IF script = "blogs"
                 THEN s.indexes \cup {"idx_posts_pub_date", "idx_posts_slug"}
                 ELSE s.indexes,
     rows |-> IF s.table THEN s.rows ELSE <<>>,
     seq |-> IF s.table THEN s.seq ELSE 0]

\* a row satisfies the clauses, read with the parameters bound to their
\* "?" in order (LIKE does not tell the case of a letter; a row of the
\* model has no description)
RECURSIVE RowMatches(_, _, _)
RowMatches(row, where, params) ==
    IF Len(where) = 0 THEN TRUE
    ELSE LET c == where[1]
             p == params[1].v
             k == IF c = "(title LIKE ? OR description LIKE ? OR content LIKE ?)"
                  THEN 3 ELSE 1
             Contains(s, sub) ==
                 \E i \in 0..(Len(s) - Len(sub)) :
                     SubSeq(s, i + 1, i + Len(sub)) = sub
             holds ==
                 CASE c = "LOWER(author) = LOWER(?)" ->
                        lower(row.author) = lower(p)
                   [] c = "LOWER(tags) LIKE '%' || LOWER(?) || '%'" ->
                        row.tags # NULL /\ Contains(lower(row.tags), lower(p))
                   [] c = "pub_date >= ?" -> row.pub_date >= p
                   [] c = "pub_date <= ?" -> row.pub_date <= p
                   [] OTHER ->
                        \/ Contains(lower(row.title), lower(p))
                        \/ Contains(lower(row.content), lower(p))
         IN holds /\ RowMatches(row, Tail(where), SubSeq(params, k + 1, Len(params)))

\* the orders in which SQLite may return rows: by pub_date for ORDER BY
\* pub_date ASC or DESC, rows of one date in any order; any order without
\* ORDER BY
Orderings(rows, keyword) ==
    LET n == Len(rows)
        perms == {f \in [1..n -> 1..n] : \A i, j \in 1..n : i # j => f[i] # f[j]}
        sorted(f) ==
            \A i \in 1..(n - 1) :
                CASE keyword = "ASC" -> rows[f[i]].pub_date <= rows[f[i + 1]].pub_date
                  [] keyword = "DESC" -> rows[f[i]].pub_date >= rows[f[i + 1]].pub_date
                  [] OTHER -> TRUE
    IN {[i \in 1..n |-> rows[f[i]]] : f \in {g \in perms : sorted(g)}}

\* a query as the handlers put it together is a record: the WHERE clauses
\* after the SELECT, the text after "ORDER BY pub_date " ("": no ORDER BY),
\* whether " LIMIT ?" was appended, and the parameters in the order of
\* their "?".  Its text: the literal parts and the one interpolated part
QueryText(q) ==
    <<Text("SELECT ... FROM posts", <<>>)>>
    \o (IF Len(q.where) > 0 THEN <<Text(" WHERE ", <<>>)>> ELSE <<>>)
    \o [i \in 1..Len(q.where) |-> Text(q.where[i], <<>>)]
    \o (IF q.keyword # ""
        THEN <<Text(" ORDER BY pub_date {order.upper()}", <<q.keyword>>)>>
        ELSE <<>>)
    \o (IF q.limited THEN <<Text(" LIMIT ?", <<>>)>> ELSE <<>>)

\* cursor = await db.execute(query, params); rows = await cursor.fetchall():
\* the row lists SQLite may answer with, or the error it raises
execute(s, q) ==
    IF ~s.table THEN {Raised("OperationalError")}
    ELSE IF q.keyword \notin {"", "ASC", "DESC"} THEN {Raised("OperationalError")}
    ELSE LET matching == SelectSeq(s.rows, LAMBDA r : RowMatches(r, q.where, q.params))
             n == IF q.limited THEN AsInt(q.params[Len(q.params)].v) ELSE Len(matching)
         IN {Returned(SubSeq(rows, 1, IF n < Len(rows) THEN n ELSE Len(rows))) :
                rows \in Orderings(matching, q.keyword)}

\* a variant that interpolates whatever the caller passed
order_keyword_unchecked(order) ==
    LET RECURSIVE Join(_)
        Join(s) == IF Len(s) = 0 THEN "" ELSE s[1] \o Join(Tail(s))
    IN Join(upper(lower(order)))

\* order = order.lower(); if order not in {"asc", "desc"}: order = "desc";
\* the text f"{order.upper()}" puts into the query
order_keyword(order) ==
    LET RECURSIVE Join(_)
        Join(s) == IF Len(s) = 0 THEN "" ELSE s[1] \o Join(Tail(s))
        lowered == lower(order)
    IN Join(upper(IF lowered \notin {<<"a", "s", "c">>, <<"d", "e", "s", "c">>}
                  THEN <<"d", "e", "s", "c">> ELSE lowered))

\* a variant that also limits on zero
limit_applies_nonnegative(limit) ==
    limit.t # "none" /\ IsNumeric(limit) /\ AsInt(limit) >= 0

\* limit is not None and isinstance(limit, int) and limit > 0
limit_applies(limit) ==
    limit.t # "none" /\ IsNumeric(limit) /\ AsInt(limit) > 0

\* _format_post_row: the line of one row
_format_post_row(script, row) ==
    IF script = "mcp_tools"
    THEN Text("id: {id_} | title: {title} | content={content}",
              <<row.id, row.title, row.content>>)
    ELSE Text("{id_} | {pub_date} | {title} by {author} | slug={slug} | tags={tags_display}",
              <<row.id, row.pub_date, row.title, row.author, row.title,
                IF row.tags = NULL THEN <<>> ELSE row.tags>>)

\* the values a caller may pass as order and as limit
Orders ==
    {<<"a", "s", "c">>, <<"A", "S", "C">>, <<"A", "s", "c">>,
     <<"d", "e", "s", "c">>, <<"D", "E", "S", "C">>, <<"u", "p">>, <<>>,
     <<"a", "s", "c", ";">>}
Limits ==
    {None, JNum(-1), JNum(0), JNum(1), JNum(2), JBool("true"), JStr("1")}

\* the files a server may find when it is launched: none, or for the blog
\* servers, which have no tool to add a post, a table with up to MaxPosts
\* posts that another program has written, ids in insertion order
InitialStores(script) ==
    LET Pool == {Row(0, <<"a">>, <<"a">>, 1, NULL, <<"c">>),
                 Row(0, <<"b">>, <<"B">>, 2, <<"t">>, <<"c">>),
                 Row(0, <<"a", "b">>, <<"a">>, 2, <<"T">>, <<"d">>)}
    IN IF script \in {"blogs", "index"}
       THEN {NoStore} \cup
            {[table |-> TRUE, indexes |-> {}, seq |-> Len(rs),
              rows |-> [i \in 1..Len(rs) |-> [rs[i] EXCEPT !.id = i]]] :
                rs \in {r \in SeqsUpTo(Pool, MaxPosts) :
                           \A i, j \in 1..Len(r) : i # j => r[i] # r[j]}}
       ELSE {NoStore}

\* the server waits for a request: mcp.run_stdio_async(), the HTTP app
Idle == [name |-> "idle", args |-> <<>>, query |-> <<>>, params |-> <<>>,
         ret |-> Returned(None)]

InitStore ==
    /\ server \in Servers
    /\ store \in InitialStores(server)
    /\ op = IF server \in InitServers THEN NoOp ELSE Idle
    /\ flow = "test3"
    /\ pc = "connect"
    /\ session = "none"
    /\ tools = <<>>
    /\ prompt = <<>>
    /\ inputsLeft = 1
    /\ content = <<>>
    /\ gen = NoGen
    /\ choice = None
    /\ error = NoError
    /\ calls = <<>>
    /\ result = NoResult
    /\ output = <<>>
    /\ requests = <<>>

\* asyncio.run(init_db()) / await init_db() of a launcher, at the first
\* launch and at every later one
InitDb ==
    /\ server \in InitServers
    /\ op \in {NoOp, Idle}
    /\ store' = init_db(server, store)
    /\ op' = [name |-> "init_db", args |-> <<>>, query |-> <<>>, params |-> <<>>,
              ret |-> Returned(None)]
    /\ UNCHANGED <<server, flow, pc, session, tools, prompt, inputsLeft, content,
                   gen, choice, error, calls, result, output, requests>>

\* the answer of a SELECT handler: the lines of the rows, or the error
Answer(script, outcome) ==
    IF outcome.err # "none" THEN outcome
    ELSE Returned([i \in 1..Len(outcome.val) |-> _format_post_row(script, outcome.val[i])])

\* list_posts(limit, order) of mcp-server-blogs.py
ListPosts ==
    /\ server = "blogs"
    /\ op = Idle
    /\ \E limit \in Limits, order \in Orders :
         LET q == [where |-> <<>>, keyword |-> order_keyword(order),
                   limited |-> limit_applies(limit),
                   params |-> IF limit_applies(limit)
                              THEN <<[kind |-> "limit", v |-> limit]>> ELSE <<>>]
         IN \E outcome \in execute(store, q) :
              op' = [name |-> "list_posts",
                     args |-> [limit |-> limit, order |-> order],
                     query |-> QueryText(q), params |-> q.params,
                     ret |-> Answer(server, outcome)]
    /\ UNCHANGED <<server, store, flow, pc, session, tools, prompt, inputsLeft,
                   content, gen, choice, error, calls, result, output, requests>>

\* get_blog_posts(limit) of mcp_tools.py, get_blog_posts(limit, order) of
\* index.py
GetBlogPosts ==
    /\ server \in {"mcp_tools", "index"}
    /\ op = Idle
    /\ \E limit \in Limits, order \in IF server = "index" THEN Orders ELSE {<<>>} :
         LET q == [where |-> <<>>,
                   keyword |-> IF server = "index" THEN order_keyword(order) ELSE "",
                   limited |-> limit_applies(limit),
                   params |-> IF limit_applies(limit)
                              THEN <<[kind |-> "limit", v |-> limit]>> ELSE <<>>]
         IN \E outcome \in execute(store, q) :
              op' = [name |-> "get_blog_posts",
                     args |-> [limit |-> limit, order |-> order],
                     query |-> QueryText(q), params |-> q.params,
                     ret |-> Answer(server, outcome)]
    /\ UNCHANGED <<server, store, flow, pc, session, tools, prompt, inputsLeft,
                   content, gen, choice, error, calls, result, output, requests>>

\* filter_posts(author, tag, since, until, search, order, limit) of
\* mcp-server-blogs.py and index.py; NULL is None, date 0 is None
FilterPosts ==
    /\ server \in {"blogs", "index"}
    /\ op = Idle
    /\ \E author \in {NULL, <<>>, <<"A">>}, tag \in {NULL, <<"t">>},
          since \in {0, 2}, until \in {0, 1}, search \in {NULL, <<"a">>},
          order \in Orders, limit \in Limits :
         LET given(text) == text # NULL /\ Len(text) > 0
             bound(kind, v) == <<[kind |-> kind, v |-> v]>>
             q == [where |->
                       (IF given(author) THEN <<"LOWER(author) = LOWER(?)">> ELSE <<>>)
                       \o (IF given(tag)
                           THEN <<"LOWER(tags) LIKE '%' || LOWER(?) || '%'">> ELSE <<>>)
                       \o (IF since # 0 THEN <<"pub_date >= ?">> ELSE <<>>)
                       \o (IF until # 0 THEN <<"pub_date <= ?">> ELSE <<>>)
                       \o (IF given(search)
                           THEN <<"(title LIKE ? OR description LIKE ? OR content LIKE ?)">>
                           ELSE <<>>),
                   keyword |-> order_keyword(order),
                   limited |-> limit_applies(limit),
                   params |->
                       (IF given(author) THEN bound("author", author) ELSE <<>>)
                       \o (IF given(tag) THEN bound("tag", tag) ELSE <<>>)
                       \o (IF since # 0 THEN bound("since", since) ELSE <<>>)
                       \o (IF until # 0 THEN bound("until", until) ELSE <<>>)
                       \o (IF given(search)
                           THEN bound("like", search) \o bound("like", search)
                                \o bound("like", search)
                           ELSE <<>>)
                       \o (IF limit_applies(limit) THEN bound("limit", limit) ELSE <<>>)]
         IN \E outcome \in execute(store, q) :
              op' = [name |-> "filter_posts",
                     args |-> [author |-> author, tag |-> tag, since |-> since,
                               until |-> until, search |-> search,
                               limit |-> limit, order |-> order],
                     query |-> QueryText(q), params |-> q.params,
                     ret |-> Answer(server, outcome)]
    /\ UNCHANGED <<server, store, flow, pc, session, tools, prompt, inputsLeft,
                   content, gen, choice, error, calls, result, output, requests>>

\* add_blog_post(title, content) of mcp_tools.py: INSERT, commit
AddBlogPost ==
    /\ server = "mcp_tools"
    /\ op = Idle
    /\ store.seq < MaxPosts
    /\ \E title \in {<<"a">>, <<"b">>}, body \in {<<"c">>} :
         /\ store' = IF store.table
                     THEN [store EXCEPT
                             !.rows = Append(@, Row(store.seq + 1, title, <<>>, 0,
                                                    NULL, body)),
                             !.seq = @ + 1]
                     ELSE store
         /\ op' = [name |-> "add_blog_post",
                   args |-> [title |-> title, content |-> body],
                   query |-> <<Text("INSERT INTO posts (title, content) VALUES (?, ?)", <<>>)>>,
                   params |-> <<[kind |-> "title", v |-> title],
                                [kind |-> "content", v |-> body]>>,
                   ret |-> IF store.table
                           THEN Returned(Text("Blog post added successfully", <<>>))
                           ELSE Raised("OperationalError")]
    /\ UNCHANGED <<server, flow, pc, session, tools, prompt, inputsLeft, content,
                   gen, choice, error, calls, result, output, requests>>

\* a variant whose DELETE takes every post up to the id
RemoveBlogPost_upTo ==
    /\ server = "mcp_tools"
    /\ op = Idle
    /\ \E id \in 1..(MaxPosts + 1) :
         /\ store' = [store EXCEPT !.rows = SelectSeq(@, LAMBDA r : r.id > id)]
         /\ op' = [name |-> "remove_blog_post", args |-> [id |-> id],
                   query |-> <<Text("DELETE FROM posts WHERE id = ?", <<>>)>>,
                   params |-> <<[kind |-> "id", v |-> id]>>,
                   ret |-> IF store.table
                           THEN Returned(Text("Blog post removed successfully", <<>>))
                           ELSE Raised("OperationalError")]
    /\ UNCHANGED <<server, flow, pc, session, tools, prompt, inputsLeft, content,
                   gen, choice, error, calls, result, output, requests>>

\* remove_blog_post(id) of mcp_tools.py: DELETE ... WHERE id = ?, commit
RemoveBlogPost ==
    /\ server = "mcp_tools"
    /\ op = Idle
    /\ \E id \in 1..(MaxPosts + 1) :
         /\ store' = [store EXCEPT !.rows = SelectSeq(@, LAMBDA r : r.id # id)]
         /\ op' = [name |-> "remove_blog_post", args |-> [id |-> id],
                   query |-> <<Text("DELETE FROM posts WHERE id = ?", <<>>)>>,
                   params |-> <<[kind |-> "id", v |-> id]>>,
                   ret |-> IF store.table
                           THEN Returned(Text("Blog post removed successfully", <<>>))
                           ELSE Raised("OperationalError")]
    /\ UNCHANGED <<server, flow, pc, session, tools, prompt, inputsLeft, content,
                   gen, choice, error, calls, result, output, requests>>

\* create_memory(content) of mcp-server-memory.py: INSERT, commit
CreateMemory ==
    /\ server = "memory"
    /\ op = Idle
    /\ store.seq < MaxPosts
    /\ \E body \in {<<"c">>, <<"d">>} :
         /\ store' = IF store.table
                     THEN [store EXCEPT
                             !.rows = Append(@, Row(store.seq + 1, <<>>, <<>>, 0,
                                                    NULL, body)),
                             !.seq = @ + 1]
                     ELSE store
         /\ op' = [name |-> "create_memory", args |-> [content |-> body],
                   query |-> <<Text("INSERT INTO memory (content) VALUES (?)", <<>>)>>,
                   params |-> <<[kind |-> "content", v |-> body]>>,
                   ret |-> IF store.table
                           THEN Returned(Text("Memory saved.", <<>>))
                           ELSE Raised("OperationalError")]
    /\ UNCHANGED <<server, flow, pc, session, tools, prompt, inputsLeft, content,
                   gen, choice, error, calls, result, output, requests>>

\* delete_memory(id) of mcp-server-memory.py: DELETE ... WHERE id = ?, commit
DeleteMemory ==
    /\ server = "memory"
    /\ op = Idle
    /\ \E id \in 1..(MaxPosts + 1) :
         /\ store' = [store EXCEPT !.rows = SelectSeq(@, LAMBDA r : r.id # id)]
         /\ op' = [name |-> "delete_memory", args |-> [id |-> id],
                   query |-> <<Text("DELETE FROM memory WHERE id = ?", <<>>)>>,
                   params |-> <<[kind |-> "id", v |-> id]>>,
                   ret |-> IF store.table
                           THEN Returned(Text("Memory {id} deleted.", <<id>>))
                           ELSE Raised("OperationalError")]
    /\ UNCHANGED <<server, flow, pc, session, tools, prompt, inputsLeft, content,
                   gen, choice, error, calls, result, output, requests>>

\* the launcher goes on to serve, a handler's value goes back to its
\* caller: the server waits for the next request
Respond ==
    /\ op \notin {NoOp, Idle}
    /\ op' = Idle
    /\ UNCHANGED <<server, store, flow, pc, session, tools, prompt, inputsLeft,
                   content, gen, choice, error, calls, result, output, requests>>

NextStore ==
    \/ InitDb
    \/ Respond
    \/ ListPosts
    \/ GetBlogPosts
    \/ FilterPosts
    \/ AddBlogPost
    \/ RemoveBlogPost
    \/ CreateMemory
    \/ DeleteMemory

SpecStore == InitStore /\ [][NextStore]_vars

(***************************************************************************)
(* Vocabulary of the properties.                                           *)
(***************************************************************************)
\* a {name, arguments} selection: an object with both keys
IsSelection(v) == v.t = "dict" /\ HasKey(v, "name") /\ HasKey(v, "arguments")

\* the positions of a text where a well-formed object starts
ObjectStarts(text) ==
    {i \in 1..Len(text) : text[i].k = "lbrace" /\ ParseValue(text, i).ok}

\* the first well-formed, balanced object embedded in a text
FirstObject(text) == ParseValue(text, Min(ObjectStarts(text))).val

\* the model has answered in this cycle
Answered == gen.kind # "none"

\* test3 has run _extract_json_object on the answer
Extracted ==
    /\ flow = "test3"
    /\ Answered
    /\ pc \in {"validate", "call", "print", "printed", "done", "failed"}

\* the selection has been handed to session.call_tool and a result came back
Invoked == pc \in {"print", "printed", "done"}

\* what recovering the selection from the answer yields in a free-text client
Recovery == IF flow = "test3" THEN extract_json_object(content) ELSE json_loads(content)

(***************************************************************************)
(* C1: in a cycle of a free-text client, when recovering the selection     *)
(* from the model output fails, or the recovered value fails test3's       *)
(* validation, the cycle is aborted with that error and session.call_tool  *)
(* is not made in that cycle.                                              *)
(***************************************************************************)
C1_ErrorsAbortBeforeCall ==
    (/\ flow \in TextFlows
     /\ Answered
     /\ \/ Recovery.err # "none"
        \/ flow = "test3" /\ ~IsSelection(Recovery.val))
    => /\ calls = <<>>
       /\ pc \in {"extract", "loads", "validate", "failed", "connect", "initialize", "call"}
       /\ flow = "test3" => pc \in {"extract", "validate", "failed"}
       /\ Recovery.err # "none" => pc \in {"extract", "loads", "failed"}
       /\ pc = "failed" =>
             error.type = IF Recovery.err # "none" THEN Recovery.err ELSE "ValueError"

\* test3 aborted at its validation, nothing was called
C1_Witness ==
    /\ flow = "test3"
    /\ pc = "failed"
    /\ error = Error("ValueError", "validate")
    /\ gen.kind = "wrapped" /\ gen.pre # <<>>
    /\ calls = <<>>

(***************************************************************************)
(* C2: when the model output as a whole does not parse, the extractor      *)
(* returns the parse of the first balanced, well-formed {...} substring,   *)
(* also when the text holds several objects.                               *)
(***************************************************************************)
C2_FirstBalancedObject ==
    (/\ Extracted
     /\ json_loads(content).err # "none"
     /\ ObjectStarts(content) # {})
    => /\ ~(pc = "failed" /\ error.at = "extract")
       /\ choice = FirstObject(content)

\* two objects with prose between them were given to the extractor
C2_Witness ==
    /\ Extracted
    /\ gen.kind = "pair"
    /\ Cardinality(ObjectStarts(content)) >= 2

(***************************************************************************)
(* C3: extraction round trip: a well-formed {name, arguments} object       *)
(* serialized between any prose prefix and any prose suffix is extracted   *)
(* unchanged.                                                              *)
(***************************************************************************)
C3_RoundTrip ==
    (/\ Extracted
     /\ gen.kind = "wrapped"
     /\ IsSelection(gen.obj))
    => /\ ~(pc = "failed" /\ error.at = "extract")
       /\ choice = gen.obj

\* an object with nested arguments inside prose went through the extractor
C3_Witness ==
    /\ Extracted
    /\ gen.kind = "wrapped"
    /\ IsSelection(gen.obj)
    /\ gen.pre # <<>> /\ gen.suf # <<>>
    /\ HasKey(Get(gen.obj, "arguments"), "extra")

(***************************************************************************)
(* C4: test3, on a model output that contains no embedded well-formed      *)
(* object, ends the cycle in an error: nothing recovered from such a text  *)
(* is used for a tool call.                                                *)
(***************************************************************************)
C4_NoObjectNoSelection ==
    (/\ flow = "test3"
     /\ Answered
     /\ ObjectStarts(content) = {})
    => /\ calls = <<>>
       /\ pc \in {"extract", "validate", "failed"}
       /\ pc = "failed" => error.at \in {"extract", "validate"}
       /\ ~IsSelection(choice)

\* a text that parses, but to no object, was refused by test3
C4_Witness ==
    /\ flow = "test3"
    /\ ObjectStarts(content) = {}
    /\ json_loads(content).err = "none"
    /\ pc = "failed"
    /\ error.at = "validate"

(***************************************************************************)
(* C5: when the value parsed from the model output is no object, or is an  *)
(* object without "name" or without "arguments", a free-text client fails  *)
(* before session.call_tool; a selection that reaches call_tool has both   *)
(* keys.                                                                   *)
(***************************************************************************)
C5_SelectionHasBothKeys ==
    /\ calls # <<>> => IsSelection(model_dump(choice))
    /\ (/\ flow \in TextFlows
        /\ Answered
        /\ Recovery.err = "none"
        /\ ~IsSelection(Recovery.val))
       => /\ calls = <<>>
          /\ ~Invoked
          /\ pc = "failed" =>
                /\ error.type \in {"ValueError", "KeyError", "TypeError"}
                /\ error.at \in {"validate", "call"}

\* test4 subscripted an object that has no "arguments" and failed there
C5_Witness ==
    /\ flow = "test4"
    /\ pc = "failed"
    /\ error = Error("KeyError", "call")
    /\ IsDict(choice) /\ HasKey(choice, "name")
    /\ calls = <<>>

(***************************************************************************)
(* Vocabulary of the validation properties.                                *)
(***************************************************************************)
\* the catalog the server advertises
Catalog == handle_list_tools

\* the selection as the model gave it
RawSelection == IF flow \in StructuredFlows THEN json_loads(content).val ELSE choice

\* the selection as the client holds it, as a plain dict
HeldSelection == model_dump(choice)

\* the parameter names a tool declares
Declared(tool) == {tool.properties[i].name : i \in 1..Len(tool.properties)}

\* the required parameters of a tool that the arguments lack
Missing(tool, arguments) ==
    {tool.required[i] : i \in 1..Len(tool.required)} \ Keys(arguments)

\* the coercion rule of the specification's validator
TypeAccepted(type, v) ==
    CASE type \in {"number", "integer"} -> v.t = "num" \/ (v.t = "str" /\ v.s \in Digits)
      [] type = "boolean" -> v.t = "bool" \/ (v.t = "str" /\ v.s \in {"true", "false"})
      [] type = "string" -> v.t = "str"
      [] type = "object" -> v.t = "dict"
      [] OTHER -> TRUE

UnknownToolText(name) == <<TextContent(Text("Unknown tool: {name}", <<name>>))>>

C9_UndeclaredKeyPassedThrough ==
    (/\ calls # <<>>
     /\ IsSelection(RawSelection)
     /\ Get(RawSelection, "name").s \in ToolNames(Catalog))
    => LET given == Get(RawSelection, "arguments")
           tool == ToolNamed(Catalog, Get(RawSelection, "name").s)
       IN \A k \in Keys(given) \ Declared(tool) :
             /\ HasKey(calls[1].arguments, k)
             /\ Get(calls[1].arguments, k) = Get(given, k)

(***************************************************************************)
(* C9 amended: test3, test4, test-mcp and mcp-client.py hand an undeclared *)
(* key to call_tool unchanged.  test2 and src/mcp_ollama_client.py parse   *)
(* the arguments into one of their three argument models, which drops      *)
(* every key that is no field of that model: only the model's fields       *)
(* reach call_tool.                                                        *)
(***************************************************************************)
C9_UndeclaredKeyByClient ==
    (/\ calls # <<>>
     /\ IsSelection(RawSelection)
     /\ Get(RawSelection, "name").s \in ToolNames(Catalog))
    => LET given == Get(RawSelection, "arguments")
           tool == ToolNamed(Catalog, Get(RawSelection, "name").s)
       IN /\ flow \notin UnionFlows =>
                \A k \in Keys(given) \ Declared(tool) :
                   /\ HasKey(calls[1].arguments, k)
                   /\ Get(calls[1].arguments, k) = Get(given, k)
          /\ flow \in UnionFlows =>
                /\ Keys(calls[1].arguments) \in {{"limit"}, {"title", "content"}, {"id"}}
                /\ Keys(calls[1].arguments) \subseteq Keys(given)

\* test2 called echo without the undeclared key the model had given
C9_Witness ==
    /\ flow = "test2"
    /\ calls # <<>>
    /\ IsSelection(RawSelection)
    /\ Get(RawSelection, "name").s = "echo"
    /\ HasKey(Get(RawSelection, "arguments"), "extra")
    /\ ~HasKey(calls[1].arguments, "extra")

(***************************************************************************)
(* The prompt fragment and the catalog it was built from.                  *)
(***************************************************************************)
\* the positions of the lines of p that open the entry of a tool named n
ToolLinesOf(p, n) == {i \in 1..Len(p) : p[i].kind = "tool" /\ p[i].a = n}

\* the positions of the entry opened at position i: up to the next tool line
EntryOf(p, i) ==
    {j \in (i + 1)..Len(p) : \A k \in (i + 1)..j : p[k].kind # "tool"}

\* the positions in the entry opened at i that show the parameter named a
ParamLinesOf(p, i, a) ==
    {j \in EntryOf(p, i) : p[j].kind = "arg" /\ p[j].a = a}

\* the prompt was built from the catalog of this cycle
PromptBuilt == flow \in PromptFlows /\ pc \in {"chat", "call", "print", "printed"}

\* C10: for every catalog, the prompt fragment create_tool_prompt builds
\* lists every tool exactly once and, under each tool, every declared
\* parameter exactly once, labelled "required" exactly when the parameter
\* is in the tool's required list and "optional" otherwise.
C10_PromptListsToolsAndParameters ==
    PromptBuilt =>
        \A t \in 1..Len(tools) :
            /\ Cardinality(ToolLinesOf(prompt, tools[t].name)) = 1
            /\ \A i \in ToolLinesOf(prompt, tools[t].name) :
                 \A q \in 1..Len(tools[t].properties) :
                    LET a == tools[t].properties[q].name
                        shown == ParamLinesOf(prompt, i, a)
                    IN /\ Cardinality(shown) = 1
                       /\ \A j \in shown :
                            prompt[j].c = IF InSeq(a, tools[t].required)
                                          THEN "required" ELSE "optional"

\* the same statement of the prompt test2 builds, where it holds
C10_Test2PromptListsToolsAndParameters ==
    flow = "test2" => C10_PromptListsToolsAndParameters

\* a prompt was built by test-mcp from a catalog that declares parameters
C10_Witness ==
    /\ flow = "testmcp"
    /\ PromptBuilt
    /\ \E t \in 1..Len(tools) : Len(tools[t].properties) > 0

(***************************************************************************)
(* The result normalizer.                                                  *)
(***************************************************************************)
\* the contents of the text items of a payload, in payload order
TextsOf(r) ==
    LET items == SelectSeq(r.content, LAMBDA b : b.type = "text")
    IN [i \in 1..Len(items) |-> items[i].text]

\* the client has printed the result of its call
ResultPrinted == pc = "printed"

\* the clients that print the first text item only
FirstTextFlows == {"test3", "test4", "mcpclient"}

(***************************************************************************)
(* C11 as claimed: for a payload with at least one text item the output    *)
(* is exactly the contents of all its text items, each once, in payload    *)
(* order; other items add nothing.                                         *)
(***************************************************************************)
C11_AllTextsInOrder ==
    (ResultPrinted /\ TextsOf(result) # <<>>) => output = TextsOf(result)

(***************************************************************************)
(* C11 amended: for a payload with at least one text item, test2 and       *)
(* test-mcp print the contents of all text items, each once, in payload    *)
(* order; test3, test4 and mcp-client.py print the first text item only;   *)
(* src/mcp_ollama_client.py prints one line that holds all text items in   *)
(* payload order.  Items that are no text add nothing.                     *)
(***************************************************************************)
C11_TextsByClient ==
    (ResultPrinted /\ TextsOf(result) # <<>>) =>
        CASE flow \in PromptFlows -> output = TextsOf(result)
          [] flow \in FirstTextFlows -> output = <<TextsOf(result)[1]>>
          [] OTHER ->
               /\ Len(output) = 1
               /\ output[1].args = TextsOf(result)

\* test3 was given two text items and printed one line
C11_Witness ==
    /\ flow = "test3"
    /\ ResultPrinted
    /\ Len(TextsOf(result)) = 2
    /\ Len(result.content) = 2
    /\ Len(output) = 1

\* the pretty-printed serializations a client may print
StructuredDump(r) == Text("json.dumps(structuredContent)", <<r.structuredContent>>)
PayloadDump == Text("json.dumps(result)", <<>>)

(***************************************************************************)
(* C12 as claimed: for a payload with no text item the output is one       *)
(* line: the serialization of the structured value when there is one, and  *)
(* the serialization of the whole payload only when there is none.         *)
(***************************************************************************)
C12_StructuredThenPayload ==
    (ResultPrinted /\ TextsOf(result) = <<>>) =>
        output = IF result.structuredContent # None
                 THEN <<StructuredDump(result)>>
                 ELSE <<PayloadDump>>

(***************************************************************************)
(* C12 amended: for a payload with no text item, test3 and mcp-client.py   *)
(* print one line, the serialization of the structured value when there    *)
(* is one and of the whole payload otherwise; test2, test4 and             *)
(* src/mcp_ollama_client.py always print the serialization of the whole    *)
(* payload, whether or not a structured value is present.                  *)
(***************************************************************************)
C12_FallbackByClient ==
    (ResultPrinted /\ TextsOf(result) = <<>> /\ flow # "testmcp") =>
        IF flow \in {"test3", "mcpclient"} /\ result.structuredContent # None
        THEN output = <<StructuredDump(result)>>
        ELSE output = <<PayloadDump>>

\* test2 was given a structured value without text and printed the payload
C12_Witness ==
    /\ flow = "test2"
    /\ ResultPrinted
    /\ TextsOf(result) = <<>>
    /\ result.structuredContent # None
    /\ output = <<PayloadDump>>

(***************************************************************************)
(* C13: the result normalizer never drops a non-empty payload silently:    *)
(* for a payload that holds an item or a structured value, either an       *)
(* output line is produced or the cycle fails with an error.               *)
(***************************************************************************)
C13_NeverDropsPayload ==
    (/\ pc \in {"printed", "done"}
     /\ (result.content # <<>> \/ result.structuredContent # None))
    => output # <<>>

(***************************************************************************)
(* The invoke step.                                                        *)
(***************************************************************************)
\* the cycle has ended, by an exception or by a handler's return
Ended == pc \in {"failed", "except", "returned", "reported"}

\* the call_tool statement itself raised
CallFaulted == error = Error("McpError", "call")

(***************************************************************************)
(* C14: in every dispatch cycle session.call_tool is invoked at most once; *)
(* a cycle whose selection reached the call and got a result invoked it    *)
(* exactly once with that selection, and a cycle whose call failed invoked *)
(* it exactly once and did not repeat it.                                  *)
(***************************************************************************)
C14_OneCallPerCycle ==
    /\ Len(calls) <= 1
    /\ Invoked =>
          /\ Len(calls) = 1
          /\ calls[1] = Call(Get(HeldSelection, "name"), Get(HeldSelection, "arguments"))
    /\ CallFaulted =>
          /\ Len(calls) = 1
          /\ Ended

\* the call of a second input's cycle failed and was made once
C14_Witness ==
    /\ flow = "test2"
    /\ inputsLeft = 1
    /\ Len(requests) = 2
    /\ CallFaulted
    /\ pc = "failed"
    /\ Len(calls) = 1

(***************************************************************************)
(* End to end.                                                             *)
(***************************************************************************)
\* the model answered test3 with prose that opens no brace, followed by a
\* selection of add_numbers with two numbers
SumAnswered ==
    /\ flow = "test3"
    /\ gen.kind = "wrapped"
    /\ gen.obj \in SumObjects
    /\ gen.suf = <<>>
    /\ \A i \in 1..Len(gen.pre) : gen.pre[i] # LBrace

\* the line the server returns for a + b
SumLine(a, b) ==
    Text("Result: {a} + {b} = {result}", <<JNum(a), JNum(b), JNum(a + b)>>)

C16_FaultPropagates ==
    CallFaulted =>
        /\ pc \in {"failed", "reported"}
        /\ Len(calls) = 1

(***************************************************************************)
(* C16 amended: no client repeats a call that raised.  In test3, test4,    *)
(* test2, test-mcp and src/mcp_ollama_client.py the fault leaves the       *)
(* cycle as an exception (test-mcp's main then prints it and processes no  *)
(* further input).  mcp-client.py catches it inside the cycle, prints      *)
(* "Tool call error" and completes normally.                               *)
(***************************************************************************)
C16_FaultByClient ==
    CallFaulted =>
        /\ Len(calls) = 1
        /\ result = NoResult
        /\ session = IF pc = "except" THEN "initialized" ELSE "closed"
        /\ CASE flow = "mcpclient" ->
                  /\ pc \in {"except", "returned"}
                  /\ pc = "returned" =>
                        output = <<Text("Tool call error: {e}", <<JStr("McpError")>>)>>
             [] flow = "testmcp" ->
                  /\ pc \in {"failed", "reported"}
                  /\ pc = "reported" =>
                        output = <<Text("An unexpected error occurred: {e}",
                                        <<JStr("McpError")>>)>>
             [] OTHER -> pc = "failed" /\ output = <<>>

\* mcp-client.py printed the fault of its call and returned
C16_Witness ==
    /\ flow = "mcpclient"
    /\ CallFaulted
    /\ pc = "returned"
    /\ Len(calls) = 1
    /\ output # <<>>

(***************************************************************************)
(* C17: when the language model backend raises during tool selection, the  *)
(* cycle ends there: no selection is extracted and session.call_tool is    *)
(* not called.                                                             *)
(***************************************************************************)
C17_BackendFailureEndsCycle ==
    error.type = "LLMError" =>
        /\ error.at = "chat"
        /\ Ended
        /\ choice = None
        /\ gen = NoGen
        /\ calls = <<>>
        /\ result = NoResult

\* the backend raised on the second input of test2 and nothing was called
C17_Witness ==
    /\ flow = "test2"
    /\ Len(requests) = 2
    /\ error = Error("LLMError", "chat")
    /\ pc = "failed"
    /\ calls = <<>>

FragmentOf(catalog) ==
    IF flow = "test2" THEN create_tool_prompt(catalog)
    ELSE create_tool_prompt_testmcp(catalog)

\* a step fetches no catalog and builds no prompt a second time, and
\* changes neither once it is there
CatalogFrame ==
    /\ tools # <<>> => tools' = tools
    /\ prompt # <<>> => prompt' = prompt
    /\ pc' = "list_tools" => pc \in {"initialize", "list_tools"}
    /\ pc' = "prompt" => pc \in {"list_tools", "prompt"}

(***************************************************************************)
(* C19: within one session of test2 or test-mcp the catalog is fetched     *)
(* once and no cycle changes it; the prompt fragment is built once from    *)
(* it; and every user input of the session is sent to the model with that  *)
(* same fragment.                                                          *)
(***************************************************************************)
C19_OneCatalogOnePrompt ==
    /\ [](flow \in PromptFlows =>
            /\ prompt \in {<<>>, FragmentOf(tools)}
            /\ \A i \in 1..Len(requests) :
                  /\ requests[i].fragment = FragmentOf(tools)
                  /\ requests[i].fragment = prompt
            /\ \A i, j \in 1..Len(requests) : i < j => requests[i].input > requests[j].input)
    /\ [][CatalogFrame]_vars

\* test-mcp sent two inputs to the model with one and the same fragment
C19_Witness ==
    /\ flow = "testmcp"
    /\ pc = "done"
    /\ Len(requests) = 2
    /\ requests[1].fragment = requests[2].fragment
    /\ requests[1].fragment = create_tool_prompt_testmcp(handle_list_tools)

(***************************************************************************)
(* Union types in the prompt.                                              *)
(***************************************************************************)
\* a union whose members all declare a type, one of them not null
TypedUnion(u) ==
    /\ Len(u) > 0
    /\ \A i \in 1..Len(u) : u[i] # ""
    /\ \E i \in 1..Len(u) : u[i] # "null"

\* the first member type of a union that is not null
FirstNonNull(u) == u[Min({i \in 1..Len(u) : u[i] # "null"})]

ClosedTypes == {"string", "number", "integer", "boolean", "object", "any"}

\* a parameter whose type cannot be resolved: no type declared and no
\* union, or a union whose members declare no type
Unresolvable(p) ==
    IF Len(p.anyOf) = 0 THEN p.type = ""
    ELSE \A i \in 1..Len(p.anyOf) : p.anyOf[i] = ""

(***************************************************************************)
(* C21: for every catalog and every parameter in it, the type shown in     *)
(* the prompt test2 builds is one of string, number, integer, boolean,     *)
(* object, any; a parameter whose type cannot be resolved is shown as any. *)
(***************************************************************************)
C21_ResolvedTypeClosed ==
    (flow = "test2" /\ pc = "chat") =>
        \A t \in 1..Len(tools) :
            \A q \in 1..Len(tools[t].properties) :
                LET p == tools[t].properties[q] IN
                \A i \in ToolLinesOf(prompt, tools[t].name) :
                    \A j \in ParamLinesOf(prompt, i, p.name) :
                        /\ prompt[j].b \in ClosedTypes
                        /\ Unresolvable(p) => prompt[j].b = "any"

(***************************************************************************)
(* The prompt fragment as a function of the catalog.                       *)
(***************************************************************************)
\* the parameters of a tool as a mapping: what it holds, whatever the order
\* of its keys
ParamsOf(tool) == {tool.properties[i] : i \in 1..Len(tool.properties)}
RequiredOf(tool) == {tool.required[i] : i \in 1..Len(tool.required)}

\* two catalogs holding the same tools with the same parameters
SameTools(c, d) ==
    /\ Len(c) = Len(d)
    /\ \A i \in 1..Len(c) :
         /\ c[i].name = d[i].name
         /\ c[i].description = d[i].description
         /\ ParamsOf(c[i]) = ParamsOf(d[i])
         /\ RequiredOf(c[i]) = RequiredOf(d[i])

\* the two catalogs also list the parameters of every tool in the same order
SameOrder(c, d) ==
    \A i \in 1..Len(c) : c[i].properties = d[i].properties

\* the parameter names of the entry opened at position i, in line order
ArgNamesOf(p, i) ==
    LET entry == SelectSeq([j \in 1..(Len(p) - i) |-> <<i + j, p[i + j]>>],
                           LAMBDA e : e[1] \in EntryOf(p, i) /\ e[2].kind = "arg")
    IN [k \in 1..Len(entry) |-> entry[k][2].a]

(***************************************************************************)
(* C22 as stated: two catalogs holding the same tools with the same        *)
(* parameters yield the same prompt fragment, whatever the iteration       *)
(* order of the parameter mapping.                                         *)
(***************************************************************************)
C22_FragmentIgnoresOrder ==
    (flow \in PromptFlows /\ pc = "chat") =>
        \A c \in Catalogs :
            SameTools(tools, c) => FragmentOf(c) = prompt

(***************************************************************************)
(* C22 amended: two catalogs holding the same tools with the same          *)
(* parameters listed in the same order yield the same prompt fragment,     *)
(* whatever the order of the required lists; in the fragment test2 builds  *)
(* the parameters of a tool appear in the iteration order of its           *)
(* properties mapping.                                                     *)
(***************************************************************************)
C22_FragmentFollowsOrder ==
    (flow \in PromptFlows /\ pc = "chat") =>
        /\ \A c \in Catalogs :
             (SameTools(tools, c) /\ SameOrder(tools, c)) =>
                 FragmentOf(c) = prompt
        /\ flow = "test2" =>
             \A t \in 1..Len(tools) :
                 \A i \in ToolLinesOf(prompt, tools[t].name) :
                     ArgNamesOf(prompt, i) =
                         [k \in 1..Len(tools[t].properties) |->
                             tools[t].properties[k].name]

\* a prompt built by test2 from a tool whose mapping lists y before x and
\* whose required list names x first
C22_Witness ==
    /\ flow = "test2"
    /\ pc = "chat"
    /\ Len(tools[1].properties) = 2
    /\ tools[1].properties[1].name = "y"
    /\ tools[1].required = <<"x", "y">>
    /\ \E i, j \in 1..Len(prompt) :
         /\ i < j
         /\ prompt[i].kind = "arg" /\ prompt[i].a = "y"
         /\ prompt[j].kind = "arg" /\ prompt[j].a = "x"

(***************************************************************************)
(* C23: init_db is idempotent.  Run on any file the server can have, at    *)
(* the first launch or after any operations on the store, it leaves the    *)
(* table present and every stored row (and the id counter) as it was, and  *)
(* running it on its own result changes nothing.                           *)
(***************************************************************************)
C23_InitDbIdempotent ==
    /\ [](server \in InitServers =>
            LET once == init_db(server, store) IN
            /\ once.table
            /\ store.table => (once.rows = store.rows /\ once.seq = store.seq)
            /\ init_db(server, once) = once)
    /\ [][op'.name = "init_db" =>
            /\ store'.table
            /\ store.table => (store'.rows = store.rows /\ store'.seq = store.seq)
            /\ init_db(server, store') = store']_vars

\* init_db of mcp-server-blogs.py has run on a file that held two posts
\* and no index
C23_Witness ==
    /\ server = "blogs"
    /\ op.name = "init_db"
    /\ Len(store.rows) = 2
    /\ store.indexes = {"idx_posts_pub_date", "idx_posts_slug"}

(***************************************************************************)
(* The query texts of the blog servers.                                    *)
(***************************************************************************)
\* the handlers that sort by a caller's order
Sorting ==
    /\ server \in {"blogs", "index"}
    /\ op.name \in {"list_posts", "filter_posts", "get_blog_posts"}

\* "asc" in every letter case
AscSpellings ==
    {<<x, y, z>> : x \in {"a", "A"}, y \in {"s", "S"}, z \in {"c", "C"}}

\* the SQL written out in the source
SqlLiterals ==
    {"SELECT ... FROM posts", " WHERE ", " LIMIT ?",
     " ORDER BY pub_date {order.upper()}",
     "LOWER(author) = LOWER(?)", "LOWER(tags) LIKE '%' || LOWER(?) || '%'",
     "pub_date >= ?", "pub_date <= ?",
     "(title LIKE ? OR description LIKE ? OR content LIKE ?)"}

\* the parts of the last query into which a value was interpolated
Interpolated == {i \in 1..Len(op.query) : op.query[i].args # <<>>}

(***************************************************************************)
(* C24: in list_posts, filter_posts and get_blog_posts, whatever the       *)
(* caller passes as order, the keyword put into the query text is ASC when *)
(* order is "asc" in any letter case and DESC for every other value, and   *)
(* nothing else a caller supplied is part of the query text.               *)
(***************************************************************************)
C24_OrderKeywordIsAscOrDesc ==
    Sorting =>
        /\ \A i \in 1..Len(op.query) : op.query[i].fmt \in SqlLiterals
        /\ \E i \in Interpolated : Interpolated = {i}
        /\ \A i \in Interpolated :
             /\ op.query[i].fmt = " ORDER BY pub_date {order.upper()}"
             /\ op.query[i].args =
                  IF op.args.order \in AscSpellings THEN <<"ASC">> ELSE <<"DESC">>

\* filter_posts was called with an author and with an order that is not a
\* sort direction; the query sorts DESC and the author is a bound parameter
C24_Witness ==
    /\ server = "blogs"
    /\ op.name = "filter_posts"
    /\ op.args.order = <<"a", "s", "c", ";">>
    /\ op.args.author = <<"A">>
    /\ \E i \in 1..Len(op.query) : op.query[i].args = <<"DESC">>
    /\ op.params[1].kind = "author"
    /\ op.ret.err = "none"
    /\ Len(op.ret.val) = 2

(***************************************************************************)
(* The row limit.                                                          *)
(***************************************************************************)
\* an integer greater than 0 (Python's True is the integer 1)
PositiveInteger(v) == (v.t = "num" /\ v.n > 0) \/ v = JBool("true")
IntegerOf(v) == IF v.t = "num" THEN v.n ELSE 1

\* the lines of the posts in the store
StoredLines == {_format_post_row(server, store.rows[i]) : i \in 1..Len(store.rows)}
LinesOf(lines) == {lines[i] : i \in 1..Len(lines)}

C26_RemoveDeletesOnlyThatPost ==
    [][op'.name \in {"remove_blog_post", "delete_memory"} =>
         LET id == op'.args.id
             others == SelectSeq(store.rows, LAMBDA r : r.id # id)
         IN /\ store'.rows = others
            /\ Len(store.rows) - Len(store'.rows) \in {0, 1}
            /\ store'.table = store.table
            /\ store'.seq = store.seq
            /\ store'.indexes = store.indexes
            /\ (\A i \in 1..Len(store.rows) : store.rows[i].id # id) => store' = store
            /\ op'.ret.err = "none"
            /\ op'.ret.val =
                 IF op'.name = "remove_blog_post"
                 THEN Text("Blog post removed successfully", <<>>)
                 ELSE Text("Memory {id} deleted.", <<id>>)]_vars

\* remove_blog_post was called with an id no post has: the two posts that
\* were added are both still stored, and the call reported success
C26_Witness ==
    /\ server = "mcp_tools"
    /\ op.name = "remove_blog_post"
    /\ store.seq = 2
    /\ Len(store.rows) = 2
    /\ \A i \in 1..Len(store.rows) : store.rows[i].id # op.args.id
    /\ op.ret = Returned(Text("Blog post removed successfully", <<>>))

(***************************************************************************)
(* The session of a dispatch.                                              *)
(***************************************************************************)
\* the dispatch is over: all inputs done, or ended by an exception, by the
\* return of an except clause, or by a cancellation
Over == pc \in {"done", "failed", "returned", "reported", "cancelled"}

\* a step that issues list_tools or call_tool on the session
IssuesRequest ==
    \/ pc = "list_tools" /\ pc' # pc
    \/ tools' # tools
    \/ pc = "call" /\ pc' # pc
    \/ Len(calls') > Len(calls)

(***************************************************************************)
(* C27: on every client session initialize() has completed before a        *)
(* list_tools or call_tool request is issued, and when the dispatch is     *)
(* over, normally or by an error raised during selection or invocation,    *)
(* the session and its connection are closed (or were never opened).       *)
(***************************************************************************)
C27_InitializedThenClosed ==
    /\ [][IssuesRequest => session = "initialized"]_vars
    /\ [][session' = "initialized" => session \in {"open", "initialized"}]_vars
    /\ [](Over => session \in {"none", "closed"})
    /\ []((Over /\ session = "none") => (tools = <<>> /\ calls = <<>>))
    /\ [](session \in {"none", "open"} => (tools = <<>> /\ calls = <<>>))

\* test3's dispatch was ended by the call_tool statement raising: one call
\* was made on the initialized session, which is now closed
C27_Witness ==
    /\ flow = "test3"
    /\ pc = "failed"
    /\ error = Error("McpError", "call")
    /\ Len(calls) = 1
    /\ tools = handle_list_tools
    /\ session = "closed"

====
